---- MODULE Spec2Model ----
(***************************************************************************)
(* Model of the minefield contest service (hguh-cheng/web4).               *)
(*                                                                         *)
(* Spec / SpecSeq / SpecRank : the game server of src/scripts/server.js    *)
(*   and of its second draft, appended to MinesweeperChallenge.sol         *)
(*   (lines 268-616, the variant whose /api/verify takes a boardState).    *)
(*   Every request handler is cut at its awaits: one action per database   *)
(*   operation together with the synchronous code around it.  Spec lets    *)
(*   the handlers of different requests interleave; SpecSeq starts a       *)
(*   request only when no other request is in progress.                    *)
(*                                                                         *)
(* SpecCommit : the commitment of new-game as a function of its inputs.    *)
(* SpecProof : the proof of verify as a function of its inputs.            *)
(* SpecGen : one call of generateMinefield, step by step.                  *)
(* SpecPayout : the Solidity contract of MinesweeperChallenge.sol (lines   *)
(*   1-267), one contest from its creation to its payout; every call is    *)
(*   one transaction and a revert leaves no effect.                        *)
(* SpecLedger : the Solidity contract or the Vyper contract of            *)
(*   MinesweeperChallenge.vy, called by the owner and by others with       *)
(*   good and bad arguments; distributePrizes goes transfer by transfer,   *)
(*   and a failure in its middle restores the state of before the call.    *)
(* SpecGenFair : SpecGen with the parameters new-game derives from a      *)
(*   contestId, under a sampling that does not avoid the free cells for    *)
(*   ever.                                                                 *)
(* SpecPlay : the play surface of MinesweeperGame.jsx (src/unnamed/        *)
(*   part_000): clicks and right clicks on a small board, the flood of     *)
(*   revealEmptyCells one loop iteration at a time.                        *)
(* SpecReplay : two players of one contest, each sending to the ledger     *)
(*   what the server's verify answered (App.jsx, handleGameComplete).      *)
(*                                                                         *)
(* Strings are sequences of tokens (a token is an atomic piece of text),   *)
(* so that concatenation is real concatenation.  JavaScript values that a  *)
(* request body may carry are tagged records (Undefined, Num, Str).        *)
(***************************************************************************)
EXTENDS Integers, Sequences, FiniteSets, TLC

VARIABLES
    variant,      \* which draft of the server is running
    games,        \* collection "games": gameId -> document (unique index on gameId)
    leaderboard,  \* collection "leaderboard": sequence of documents, insertion order
    nextGameId,   \* number of gameIds drawn so far (crypto.randomBytes(16): never repeats)
    pc,           \* per request: where its handler stands
    args,         \* per request in progress: what the client sent
    local,        \* per request in progress: the handler's local variables (game, proof)
    reply,        \* the last response sent, with the request it answers
    accepted,     \* history: gameId -> number of verify requests answered with success
    owner,        \* history: gameId -> playerAddress of the session created with it
    sent,         \* history: the secrets sent to a client so far
    commitInputs, \* commitment engine: the two (board, secret, playerAddress) triples given
    commitOutputs, \* commitment engine: their commitments, << >> before they are computed
    proofInputs,  \* proof engine: the two verify requests given, with the secrets of their games
    proofOutputs, \* proof engine: their proofs, << >> before they are computed
    genpc,        \* generateMinefield: where the call stands
    width,        \* generateMinefield: parameter
    height,       \* generateMinefield: parameter
    mineCount,    \* generateMinefield: parameter
    minefield,    \* generateMinefield: the local `board`, row y -> column x -> cell
    mines,        \* generateMinefield: the local `mines`
    blockTimestamp,        \* ledger: block.timestamp
    currentContestId,      \* ledger: number of contests created
    contest,               \* ledger: weeklyContests[1], the struct Contest
    platformFeePercentage, \* ledger: fee in basis points
    platformFeeReceiver,   \* ledger: address the fee is sent to
    ledgerBalance,         \* ledger: address(this).balance
    refusing,              \* ledger: the addresses whose code rejects a value transfer
    lastCall,              \* ledger: the last call made and what it did
    language,              \* ledger: the language of the contract deployed
    paid,                  \* ledger: address -> value received from the contract so far
    txpc,                  \* ledger: where the distributePrizes in progress stands
    txBefore,              \* ledger: the state that a revert of the call in progress restores
    playpc,          \* play surface: where the click handler in progress stands
    playBoard,       \* play surface: the prop `board`, row y -> column x -> cell
    revealedCells,   \* play surface: the state `revealed` of the last render, as a set of cells
    flaggedCells,    \* play surface: the state `flagged`, as a set of cells
    gameOver,        \* play surface: state
    gameWon,         \* play surface: state
    newRevealed,     \* play surface: the local `newRevealed` of handleCellClick
    frames,          \* play surface: the calls of revealEmptyCells in progress, innermost last
    onCompleteCalls  \* play surface, history: number of calls of onComplete

serverVars ==
    <<variant, games, leaderboard, nextGameId, pc, args, local, reply, accepted, owner, sent>>

commitVars == <<commitInputs, commitOutputs, proofInputs, proofOutputs>>

genVars == <<genpc, width, height, mineCount, minefield, mines>>

\* what the game server never touches
ledgerVars ==
    <<blockTimestamp, currentContestId, contest, platformFeePercentage, platformFeeReceiver,
      ledgerBalance, refusing, lastCall, language, paid, txpc, txBefore>>

playVars ==
    <<playpc, playBoard, revealedCells, flaggedCells, gameOver, gameWon, newRevealed, frames,
      onCompleteCalls>>

otherVars == <<commitVars, genVars, ledgerVars, playVars>>

vars == <<serverVars, otherVars>>

-----------------------------------------------------------------------------
(* Bounds *)

\* number of requests a behaviour holds
MaxReq == 3

\* side of the (scaled down) boards new-game stores
BoardSide == 4

Reqs == 1..MaxReq

-----------------------------------------------------------------------------
(* JavaScript values of a request body *)

Undefined == [t |-> "undefined"]
Num(n) == [t |-> "number", v |-> n]
Str(s) == [t |-> "string", v |-> s]

\* !v of JavaScript: undefined, 0 and "" are falsy
Truthy(v) ==
    CASE v.t = "undefined" -> FALSE
      [] v.t = "number" -> v.v # 0
      [] v.t = "string" -> v.v # <<>>

\* `${v}` of a template literal
TemplateString(v) ==
    CASE v.t = "undefined" -> <<"undefined">>
      [] v.t = "number" -> <<ToString(v.v)>>
      [] v.t = "string" -> v.v

-----------------------------------------------------------------------------
(* Boards *)

\* the cell value "X" (a mine); counts are 0..8
X == -1

Abs(n) == IF n < 0 THEN -n ELSE n

\* a safe area of the centre cell alone
InSafeAreaCentreOnly(w, h, x, y) == x = w \div 2 /\ y = h \div 2

\* Math.abs(x - safeX) <= 1 && Math.abs(y - safeY) <= 1
InSafeArea(w, h, x, y) ==
    Abs(x - (w \div 2)) <= 1 /\ Abs(y - (h \div 2)) <= 1

\* a count over the four neighbours that share a side
NeighbourMinesBySide(w, h, mined, x, y) ==
    Cardinality({d \in { <<-1, 0>>, <<1, 0>>, <<0, -1>>, <<0, 1>> } :
        /\ x + d[1] >= 0 /\ x + d[1] < w
        /\ y + d[2] >= 0 /\ y + d[2] < h
        /\ <<x + d[1], y + d[2]>> \in mined})

\* lines 60-82 of generateMinefield: the counts of a board whose mines are placed
NeighbourMines(w, h, mined, x, y) ==
    Cardinality({d \in (-1..1) \X (-1..1) :
        /\ ~(d[1] = 0 /\ d[2] = 0)
        /\ x + d[1] >= 0 /\ x + d[1] < w
        /\ y + d[2] >= 0 /\ y + d[2] < h
        /\ <<x + d[1], y + d[2]>> \in mined})

CountedBoard(w, h, mined) ==
    [y \in 0..(h - 1) |-> [x \in 0..(w - 1) |->
        IF <<x, y>> \in mined THEN X ELSE NeighbourMines(w, h, mined, x, y)]]

\* boards generateMinefield can return, as new-game stores them: the two
\* placements used here put the mines on the left edge, outside the safe area
ServerBoards ==
    { CountedBoard(BoardSide, BoardSide, m) :
        m \in { {<<0, 0>>}, {<<0, 0>>, <<0, BoardSide - 1>>} } }

\* countMines(board)
countMines(board) ==
    Cardinality({c \in (DOMAIN board) \X (DOMAIN board[0]) : board[c[1]][c[2]] = X})

\* JSON.stringify(board): "[" row "," row ... "]", a mine as "\"X\""
RECURSIVE JoinComma(_)
JoinComma(ss) ==
    IF Len(ss) = 0 THEN <<>>
    ELSE IF Len(ss) = 1 THEN ss[1]
    ELSE ss[1] \o <<",">> \o JoinComma(Tail(ss))

JSONstringify(board) ==
    LET h == Cardinality(DOMAIN board)
        w == Cardinality(DOMAIN board[0])
        cell(c) == IF c = X THEN <<"\"X\"">> ELSE <<ToString(c)>>
        row(y) == <<"[">> \o JoinComma([i \in 1..w |-> cell(board[y][i - 1])]) \o <<"]">>
    IN <<"[">> \o JoinComma([j \in 1..h |-> row(j - 1)]) \o <<"]">>

\* crypto.createHash("sha256").update(s).digest("hex"): an ideal hash, one
\* digest per input string
sha256hex(s) == <<"sha256", s>>

-----------------------------------------------------------------------------
(* Game server: data *)

\* player addresses that match /^0x[a-fA-F0-9]{40}$/ (one token each)
Addresses == { <<"0xA">>, <<"0xB">> }

\* text that is no address, and no text at all
BadAddress == <<"zz">>
NoAddress == << >>

IsAddress(a) == a \in Addresses

\* the contests requests name
ContestIds == { 1, 2 }

\* gameId as the hex text of crypto.randomBytes(16); 0 stands for no gameId
GameIdString(g) == <<"g", ToString(g)>>

\* crypto.randomBytes(32).toString("hex") of the n-th game: never repeats
SecretOf(n) == <<"s", ToString(n)>>

\* a submitted solution state: the matrix of revealed flags
BoardState(revealed) == [t |-> "object", revealed |-> revealed]

TruthyState(b) == b.t # "undefined"

AllCells == (0..(BoardSide - 1)) \X (0..(BoardSide - 1))

\* the solution state that reveals exactly the cells <<x, y>> of `shown`
StateShowing(shown) ==
    BoardState([y \in 0..(BoardSide - 1) |-> [x \in 0..(BoardSide - 1) |-> <<x, y>> \in shown]])

MinesOf(board) == {c \in AllCells : board[c[2]][c[1]] = X}

\* a number no game takes as moves or seconds
HugeNumber == 1000000000

\* (moves, timeTaken) pairs a client submits: well-formed ones, and ones with
\* a missing, zero, negative, non-numeric or huge field
WellFormedScore == <<Num(3), Num(7)>>

ScoreInputs ==
    { WellFormedScore,
      <<Num(0), Num(7)>>, <<Num(3), Undefined>>, <<Num(-1), Num(7)>>,
      <<Num(3), Str(<<"abc">>)>>, <<Num(HugeNumber), Num(7)>> }

\* solution states a client submits: none, nothing revealed, everything
\* revealed, and exactly the non-mine cells of a board
BoardStateInputs ==
    { Undefined, StateShowing({}), StateShowing(AllCells) }
        \cup { StateShowing(AllCells \ MinesOf(b)) : b \in ServerBoards }

NoArgs ==
    [ op |-> "none", playerAddress |-> NoAddress, contestId |-> 0, gameId |-> 0,
      moves |-> Undefined, timeTaken |-> Undefined, boardState |-> Undefined,
      limit |-> 0 ]

NoLocal == [ gameId |-> 0 ]

NoReply == [ req |-> 0, args |-> NoArgs, res |-> [ status |-> 0, body |-> [ error |-> "" ] ] ]

Json(body) == [ status |-> 200, body |-> body ]

Error(status, text) == [ status |-> status, body |-> [ error |-> text ] ]

\* a request in the middle of its handler (between two awaits)
InProgress(r) == pc[r] \notin { "idle", "done" }

\* requests are numbered in the order they arrive
MayStart(r) == pc[r] = "idle" /\ (\A q \in Reqs : q < r => pc[q] # "idle")

\* the other parts of the system, at rest
PlayIdle ==
    /\ playpc = "unmounted"
    /\ playBoard = << >>
    /\ revealedCells = {}
    /\ flaggedCells = {}
    /\ gameOver = FALSE
    /\ gameWon = FALSE
    /\ newRevealed = {}
    /\ frames = << >>
    /\ onCompleteCalls = 0

CommitIdle ==
    /\ commitInputs = << >>
    /\ commitOutputs = << >>
    /\ proofInputs = << >>
    /\ proofOutputs = << >>

GenIdle ==
    /\ genpc = "idle"
    /\ width = 0
    /\ height = 0
    /\ mineCount = 0
    /\ minefield = << >>
    /\ mines = 0

\* address(0) and bytes32(0)
ZeroAddress == "0x0"
ZeroBytes32 == "0x00"

\* the account that deployed the contract: owner() and first platformFeeReceiver
Deployer == "deployer"

\* the players, named in the order in which they enter
LedgerPlayers == << "p1", "p2", "p3", "p4" >>

PlayerSet == { LedgerPlayers[i] : i \in 1..Len(LedgerPlayers) }

\* a Contest struct that was never written; Solidity keeps the array players,
\* Vyper the number playerCount and its mappings beside the struct
NoContest ==
    [ startTime |-> 0, endTime |-> 0, entryFee |-> 0, totalPrizePool |-> 0,
      players |-> << >>,
      playerCount |-> 0,
      hasEntered |-> [a \in PlayerSet |-> FALSE],
      bestMoves |-> [a \in PlayerSet |-> 0],
      bestTime |-> [a \in PlayerSet |-> 0],
      commitments |-> [a \in PlayerSet |-> ZeroBytes32],
      prizesDistributed |-> FALSE ]

NoCall == [ fn |-> "none", ok |-> TRUE ]

\* the accounts the contract may pay, none of them paid yet
NoPaid == [a \in PlayerSet \cup { Deployer } |-> 0]

\* no call in progress: nothing to restore
NoSnapshot == [ contest |-> NoContest, ledgerBalance |-> 0, paid |-> NoPaid ]

\* the contract not deployed
LedgerIdle ==
    /\ blockTimestamp = 0
    /\ currentContestId = 0
    /\ contest = NoContest
    /\ platformFeePercentage = 0
    /\ platformFeeReceiver = ZeroAddress
    /\ ledgerBalance = 0
    /\ refusing = {}
    /\ lastCall = NoCall
    /\ language = "Solidity"
    /\ paid = NoPaid
    /\ txpc = "none"
    /\ txBefore = NoSnapshot

OthersIdle == CommitIdle /\ GenIdle /\ LedgerIdle /\ PlayIdle

\* the server after connectToDatabase, both collections empty
ServerInit ==
    /\ variant \in { "server.js", "boardState" }
    /\ games = << >>
    /\ leaderboard = << >>
    /\ nextGameId = 0
    /\ pc = [r \in Reqs |-> "idle"]
    /\ args = [r \in Reqs |-> NoArgs]
    /\ local = [r \in Reqs |-> NoLocal]
    /\ reply = NoReply
    /\ accepted = [g \in 0..MaxReq |-> 0]
    /\ owner = [g \in 0..MaxReq |-> NoAddress]
    /\ sent = {}

Init == ServerInit /\ OthersIdle

\* the secrets a response carries in one of its text fields, bare or after "0x"
SecretsIn(response) ==
    { s \in { SecretOf(n) : n \in 1..MaxReq } :
        \E f \in (DOMAIN response.body) \cap { "secret", "commitment", "proof" } :
            response.body[f] = s \/ response.body[f] = <<"0x">> \o s }

\* res.json(...) / res.status(...).json(...): the response leaves, the handler ends
Respond(r, a, response) ==
    /\ reply' = [ req |-> r, args |-> a, res |-> response ]
    /\ pc' = [pc EXCEPT ![r] = "done"]
    /\ args' = [args EXCEPT ![r] = NoArgs]
    /\ local' = [local EXCEPT ![r] = NoLocal]
    /\ accepted' = IF a.op = "verify" /\ response.status = 200
                   THEN [accepted EXCEPT ![a.gameId] = @ + 1]
                   ELSE accepted
    /\ sent' = sent \cup SecretsIn(response)
    /\ UNCHANGED otherVars

\* the handler goes on to its next await
Await(r, a, l, label) ==
    /\ pc' = [pc EXCEPT ![r] = label]
    /\ args' = [args EXCEPT ![r] = a]
    /\ local' = [local EXCEPT ![r] = l]
    /\ UNCHANGED <<reply, accepted, sent, otherVars>>

\* history of the sessions created
Created(gameId, playerAddress) == owner' = [owner EXCEPT ![gameId] = playerAddress]

-----------------------------------------------------------------------------
(* Game server: POST /api/new-game *)

\* the lookup with its flag misnamed (complete: false), which no document matches
ActiveGamesMisnamedFlag(playerAddress, contestId) == {}

\* findOne({ playerAddress, contestId, completed: false }): the documents it may return
ActiveGames(playerAddress, contestId) ==
    { g \in DOMAIN games :
        /\ games[g].playerAddress = playerAddress
        /\ games[g].contestId = contestId
        /\ games[g].completed = FALSE }

\* the hash taken over the board and the address only
CommitmentWithoutSecret(board, secret, playerAddress) ==
    <<"0x">> \o sha256hex(JSONstringify(board) \o playerAddress)

\* "0x" + sha256(JSON.stringify(board) + secret + playerAddress)
Commitment(board, secret, playerAddress) ==
    <<"0x">> \o sha256hex(JSONstringify(board) \o secret \o playerAddress)

\* the address check, the lookup of an active game and the early return
NewGameFind(r, playerAddress, contestId) ==
    /\ MayStart(r)
    /\ LET a == [NoArgs EXCEPT !.op = "new-game",
                    !.playerAddress = playerAddress, !.contestId = contestId]
       IN IF ~IsAddress(playerAddress)
          THEN Respond(r, a, Error(400, "Invalid player address"))
          ELSE IF ActiveGames(playerAddress, contestId) # {}
          THEN \E g \in ActiveGames(playerAddress, contestId) :
                  Respond(r, a, Json([ gameId |-> g, commitment |-> games[g].commitment ]))
          ELSE Await(r, a, NoLocal, "new-game:insert")
    /\ UNCHANGED <<variant, games, leaderboard, nextGameId, owner>>

\* the document insertOne stores
NewGame(gameId, playerAddress, contestId, board, secret) ==
    [ gameId |-> gameId,
      playerAddress |-> playerAddress,
      contestId |-> contestId,
      board |-> board,
      secret |-> secret,
      commitment |-> Commitment(board, secret, playerAddress),
      completed |-> FALSE,
      moves |-> Num(0),
      timeTaken |-> Num(0) ]

\* the board, the secret, the commitment, insertOne and the response
NewGameInsert(r) ==
    /\ pc[r] = "new-game:insert"
    /\ \E board \in ServerBoards :
        LET gameId == nextGameId + 1
            game == NewGame(gameId, args[r].playerAddress, args[r].contestId,
                            board, SecretOf(gameId))
        IN /\ games' = (gameId :> game) @@ games
           /\ nextGameId' = gameId
           /\ Created(gameId, args[r].playerAddress)
           /\ Respond(r, args[r], Json([ gameId |-> gameId, commitment |-> game.commitment ]))
    /\ UNCHANGED <<variant, leaderboard>>

-----------------------------------------------------------------------------
(* Game server: GET /api/game/:gameId *)

\* the lookup by gameId alone
FindGameByIdOnly(gameId, playerAddress) == { g \in DOMAIN games : g = gameId }

\* findOne({ gameId, playerAddress })
FindGame(gameId, playerAddress) ==
    { g \in DOMAIN games : g = gameId /\ games[g].playerAddress = playerAddress }

\* the whole stored document as the body
GameBodyWholeDocument(game) ==
    [ board |-> game.board,
      difficulty |-> Cardinality(DOMAIN game.board) - 8,
      contestId |-> game.contestId,
      secret |-> game.secret,
      commitment |-> game.commitment ]

\* the body of a successful fetch
GameBody(game) ==
    [ board |-> game.board,
      difficulty |-> Cardinality(DOMAIN game.board) - 8,
      contestId |-> game.contestId ]

FetchBoard(r, gameId, playerAddress) ==
    /\ MayStart(r)
    /\ LET a == [NoArgs EXCEPT !.op = "game",
                    !.gameId = gameId, !.playerAddress = playerAddress]
       IN IF gameId = 0 \/ playerAddress = NoAddress
          THEN Respond(r, a, Error(400, "Missing required parameters"))
          ELSE IF FindGame(gameId, playerAddress) = {}
          THEN Respond(r, a, Error(403, "Game not found or unauthorized"))
          ELSE Respond(r, a, Json(GameBody(games[gameId])))
    /\ UNCHANGED <<variant, games, leaderboard, nextGameId, owner>>

-----------------------------------------------------------------------------
(* Game server: POST /api/verify *)

\* validateBoardSolution of the boardState draft
validateBoardSolution(originalBoard, revealedBoard) == TRUE

\* the hash taken over the text without the address
ProofWithoutPlayer(gameId, moves, timeTaken, playerAddress, secret) ==
    <<"0x">> \o sha256hex(GameIdString(gameId) \o <<":">> \o TemplateString(moves) \o <<":">>
                          \o TemplateString(timeTaken) \o <<":">> \o secret)

\* "0x" + sha256(`${gameId}:${moves}:${timeTaken}:${playerAddress}:${game.secret}`)
Proof(gameId, moves, timeTaken, playerAddress, secret) ==
    <<"0x">> \o sha256hex(GameIdString(gameId) \o <<":">> \o TemplateString(moves) \o <<":">>
                          \o TemplateString(timeTaken) \o <<":">> \o playerAddress
                          \o <<":">> \o secret)

\* if (!gameId || !moves || !timeTaken || !playerAddress), and || !boardState
\* in the boardState draft
MissingVerifyParameter(a) ==
    \/ a.gameId = 0
    \/ ~Truthy(a.moves)
    \/ ~Truthy(a.timeTaken)
    \/ a.playerAddress = NoAddress
    \/ (variant = "boardState" /\ ~TruthyState(a.boardState))

\* the checks without the one on game.completed
VerifyRejectionSkipsCompleted(a) ==
    IF FindGame(a.gameId, a.playerAddress) = {} THEN "Game not found"
    ELSE IF variant = "boardState"
            /\ ~validateBoardSolution(games[a.gameId].board, a.boardState)
    THEN "Invalid solution"
    ELSE ""

\* the answer of the checks made on the outcome of findOne, "" when all pass
VerifyRejection(a) ==
    IF FindGame(a.gameId, a.playerAddress) = {} THEN "Game not found"
    ELSE IF games[a.gameId].completed THEN "Game already completed"
    ELSE IF variant = "boardState"
            /\ ~validateBoardSolution(games[a.gameId].board, a.boardState)
    THEN "Invalid solution"
    ELSE ""

RejectionStatus(text) == IF text = "Game not found" THEN 404 ELSE 400

\* the parameter check, findOne and the checks on what it returned, up to the
\* await of updateOne
VerifyFind(r, gameId, score, playerAddress, boardState) ==
    /\ MayStart(r)
    /\ LET a == [NoArgs EXCEPT !.op = "verify", !.gameId = gameId,
                    !.moves = score[1], !.timeTaken = score[2],
                    !.playerAddress = playerAddress, !.boardState = boardState]
       IN IF MissingVerifyParameter(a)
          THEN Respond(r, a, Error(400, "Missing required parameters"))
          ELSE IF VerifyRejection(a) # ""
          THEN Respond(r, a, Error(RejectionStatus(VerifyRejection(a)), VerifyRejection(a)))
          ELSE Await(r, a,
                     [ gameId |-> gameId,
                       game |-> games[gameId],
                       proof |-> Proof(gameId, a.moves, a.timeTaken, playerAddress,
                                       games[gameId].secret) ],
                     "verify:update")
    /\ UNCHANGED <<variant, games, leaderboard, nextGameId, owner>>

\* updateOne({ gameId }, { $set: { completed: true, moves, timeTaken } })
CompleteGame(gameId, moves, timeTaken) ==
    [g \in DOMAIN games |->
        IF g = gameId
        THEN [games[g] EXCEPT !.completed = TRUE, !.moves = moves, !.timeTaken = timeTaken]
        ELSE games[g]]

VerifyUpdate(r) ==
    /\ pc[r] = "verify:update"
    /\ games' = CompleteGame(args[r].gameId, args[r].moves, args[r].timeTaken)
    /\ Await(r, args[r], local[r], "verify:insert")
    /\ UNCHANGED <<variant, leaderboard, nextGameId, owner>>

\* the document insertOne adds to the leaderboard
Completion(a, game) ==
    [ gameId |-> a.gameId,
      playerAddress |-> a.playerAddress,
      contestId |-> game.contestId,
      moves |-> a.moves,
      timeTaken |-> a.timeTaken,
      boardSize |-> <<ToString(Cardinality(DOMAIN game.board)), "x",
                      ToString(Cardinality(DOMAIN game.board[0]))>>,
      mineCount |-> countMines(game.board) ]

\* the body of a successful verify
VerifyBody(game, proof) ==
    [ secret |-> <<"0x">> \o game.secret, proof |-> proof, isValid |-> TRUE ]

\* a check of moves made only after the two writes
VerifyResponseChecksLate(a, game, proof) ==
    IF a.moves.t = "number" /\ a.moves.v > 0
    THEN Json(VerifyBody(game, proof))
    ELSE Error(400, "Invalid solution")

\* res.json({ secret, proof, isValid: true }), the last statement of the handler
VerifyResponse(a, game, proof) == Json(VerifyBody(game, proof))

\* insertOne into the leaderboard, then the response
VerifyInsert(r) ==
    /\ pc[r] = "verify:insert"
    /\ leaderboard' = Append(leaderboard, Completion(args[r], local[r].game))
    /\ Respond(r, args[r], VerifyResponse(args[r], local[r].game, local[r].proof))
    /\ UNCHANGED <<variant, games, nextGameId, owner>>

-----------------------------------------------------------------------------
(* Game server: the TTL index on games.createdAt *)

\* createIndex({ createdAt: 1 }, { expireAfterSeconds: 86400 }): the database
\* removes a game document, completed or not, once it is a day old
Expire(g) ==
    /\ g \in DOMAIN games
    /\ games' = [h \in DOMAIN games \ {g} |-> games[h]]
    /\ UNCHANGED <<variant, leaderboard, nextGameId, pc, args, local, reply, accepted, owner, sent>>
    /\ UNCHANGED otherVars

-----------------------------------------------------------------------------
(* Game server: GET /api/leaderboard/:contestId *)

\* the order of sort({ moves: 1, timeTaken: 1 }) on one field: numbers by
\* value, every number before every string (two strings: the inputs hold one
\* string value only, which ties with itself)
BsonLess(a, b) ==
    \/ a.t = "number" /\ b.t = "number" /\ a.v < b.v
    \/ a.t = "number" /\ b.t = "string"

\* the sort on moves alone
RankedByMovesOnly(d, e) == BsonLess(d.moves, e.moves)

\* sort({ moves: 1, timeTaken: 1 }): d must come before e
RankedBefore(d, e) ==
    \/ BsonLess(d.moves, e.moves)
    \/ d.moves = e.moves /\ BsonLess(d.timeTaken, e.timeTaken)

\* parseInt(req.query.limit) || default: 3 in server.js, 10 in the boardState draft
DefaultLimit == IF variant = "server.js" THEN 3 ELSE 10

Min(a, b) == IF a < b THEN a ELSE b

\* find({ contestId }).sort(...).limit(limit).project(...): every order the
\* sort may give (documents that tie come in any order)
LeaderboardResults(contestId, limit) ==
    LET hits == { i \in 1..Len(leaderboard) : leaderboard[i].contestId = contestId }
        n == Cardinality(hits)
        orders == { o \in [1..n -> hits] :
                      /\ \A i, j \in 1..n : i # j => o[i] # o[j]
                      /\ \A i, j \in 1..n :
                            i < j => ~RankedBefore(leaderboard[o[j]], leaderboard[o[i]]) }
        lim == IF limit = 0 THEN DefaultLimit ELSE limit
    IN { [k \in 1..Min(n, lim) |->
            [ playerAddress |-> leaderboard[o[k]].playerAddress,
              moves |-> leaderboard[o[k]].moves,
              timeTaken |-> leaderboard[o[k]].timeTaken ]] : o \in orders }

Leaderboard(r, contestId, limit) ==
    /\ MayStart(r)
    /\ LET a == [NoArgs EXCEPT !.op = "leaderboard",
                    !.contestId = contestId, !.limit = limit]
       IN \E rows \in LeaderboardResults(contestId, limit) :
            Respond(r, a, Json([ leaderboard |-> rows ]))
    /\ UNCHANGED <<variant, games, leaderboard, nextGameId, owner>>

-----------------------------------------------------------------------------
(* Game server: the two specifications *)

\* what clients send to new-game
NewGameInputs ==
    ({ <<"0xA">> } \X ContestIds) \cup { << <<"0xB">>, 1 >>, <<BadAddress, 1>> }

\* gameIds a client names: ids that are or are not issued; 0 stands for none
GameIdInputs == 1..(MaxReq - 1)

\* what clients send to fetch-board
FetchInputs ==
    (GameIdInputs \X Addresses) \cup { <<0, <<"0xA">> >>, <<1, NoAddress>> }

\* what clients send to verify, as <<gameId, score, boardState, playerAddress>>:
\* every score and every solution state, from either player, and requests
\* that miss the gameId or the address
VerifyInputs ==
    (GameIdInputs \X ScoreInputs \X { StateShowing(AllCells) } \X { <<"0xA">> })
        \cup (GameIdInputs \X { WellFormedScore } \X BoardStateInputs \X Addresses)
        \cup { <<0, WellFormedScore, StateShowing(AllCells), <<"0xA">> >>,
               <<1, WellFormedScore, StateShowing(AllCells), NoAddress>> }

\* the boardState draft reads boardState; server.js never looks at it
BoardStateSent(b) == IF variant = "server.js" THEN Undefined ELSE b

\* the requests sent while other handlers are in progress: the ones whose
\* handlers go through every await, and one rejected request of each kind
RaceNewGameInputs == { << <<"0xA">>, 1 >>, << <<"0xB">>, 1 >>, <<BadAddress, 1>> }

RaceFetchInputs == { <<1, <<"0xA">> >>, <<1, <<"0xB">> >> }

RaceVerifyInputs ==
    (GameIdInputs \X { WellFormedScore } \X { StateShowing(AllCells) } \X { <<"0xA">> })
        \cup { <<1, <<Num(0), Num(7)>>, StateShowing(AllCells), <<"0xA">> >>,
               <<1, WellFormedScore, StateShowing(AllCells), <<"0xB">> >> }

ArriveNewGame(r) == \E i \in RaceNewGameInputs : NewGameFind(r, i[1], i[2])

ArriveFetch(r) == \E i \in RaceFetchInputs : FetchBoard(r, i[1], i[2])

ArriveVerify(r) ==
    \E i \in RaceVerifyInputs : VerifyFind(r, i[1], i[2], i[4], BoardStateSent(i[3]))

ArriveLeaderboard(r) == Leaderboard(r, 1, 0)

Continue(r) ==
    \/ NewGameInsert(r)
    \/ VerifyUpdate(r)
    \/ VerifyInsert(r)

Next ==
    \/ \E r \in Reqs : ArriveNewGame(r)
    \/ \E r \in Reqs : ArriveFetch(r)
    \/ \E r \in Reqs : ArriveVerify(r)
    \/ \E r \in Reqs : ArriveLeaderboard(r)
    \/ \E r \in Reqs : Continue(r)
    \/ \E g \in DOMAIN games : Expire(g)

\* requests are handled while others are in progress
Spec == Init /\ [][Next]_vars

\* no request is in the middle of its handler
Quiet == \A q \in Reqs : ~InProgress(q)

SeqNewGame(r) == Quiet /\ \E i \in NewGameInputs : NewGameFind(r, i[1], i[2])

SeqFetch(r) == Quiet /\ \E i \in FetchInputs : FetchBoard(r, i[1], i[2])

SeqVerify(r) ==
    Quiet /\ \E i \in VerifyInputs : VerifyFind(r, i[1], i[2], i[4], BoardStateSent(i[3]))

SeqLeaderboard(r) == Quiet /\ \E c \in ContestIds, l \in { 0, 1 } : Leaderboard(r, c, l)

NextSeq ==
    \/ \E r \in Reqs : SeqNewGame(r)
    \/ \E r \in Reqs : SeqFetch(r)
    \/ \E r \in Reqs : SeqVerify(r)
    \/ \E r \in Reqs : SeqLeaderboard(r)
    \/ \E r \in Reqs : Continue(r)
    \/ \E g \in DOMAIN games : Expire(g)

\* a request arrives only when no other is in progress
SpecSeq == Init /\ [][NextSeq]_vars

-----------------------------------------------------------------------------
(* Game server: the leaderboard query over a filled leaderboard collection *)

\* number of completion records the collection holds at most
RankLen == 3

\* the player of the i-th record: "0xA", "0xB", "0xC", ...
RankPlayer(i) == << <<"0xA">>, <<"0xB">>, <<"0xC">>, <<"0xD">>, <<"0xE">> >>[i]

\* (moves, timeTaken) of a record
RankScores == { <<10, 50>>, <<10, 40>>, <<9, 99>> }

\* the record verify inserts for a game of RankPlayer(i) in contest c with score sc
RankRecord(i, c, sc) ==
    Completion([ gameId |-> i, playerAddress |-> RankPlayer(i),
                 moves |-> Num(sc[1]), timeTaken |-> Num(sc[2]) ],
               [ contestId |-> c, board |-> CountedBoard(BoardSide, BoardSide, {<<0, 0>>}) ])

RankLeaderboards ==
    UNION { { [i \in 1..n |-> RankRecord(i, e[i][1], e[i][2])] :
                e \in [1..n -> ContestIds \X RankScores] } : n \in 0..RankLen }

InitRank ==
    /\ variant \in { "server.js", "boardState" }
    /\ games = << >>
    /\ leaderboard \in RankLeaderboards
    /\ nextGameId = 0
    /\ pc = [r \in Reqs |-> "idle"]
    /\ args = [r \in Reqs |-> NoArgs]
    /\ local = [r \in Reqs |-> NoLocal]
    /\ reply = NoReply
    /\ accepted = [g \in 0..MaxReq |-> 0]
    /\ owner = [g \in 0..MaxReq |-> NoAddress]
    /\ sent = {}
    /\ OthersIdle

\* a leaderboard request with no limit (0), or a limit of 1 or 2
RankQuery(r) == \E c \in ContestIds, l \in 0..2 : Leaderboard(r, c, l)

NextRank == \E r \in Reqs : RankQuery(r)

SpecRank == InitRank /\ [][NextRank]_vars

-----------------------------------------------------------------------------
(* Commitment engine: the commitment of new-game as a function of its inputs *)

\* length of a secret (64 hex digits in the program) and number of hex digits
\* of an address (40 in the program), scaled down
SecretLen == 2
AddressDigits == 1

\* hex digits: one that is also a character of JSON.stringify(board), one that is not
HexDigits == { "0", "a" }

\* crypto.randomBytes(32).toString("hex"), character by character
CommitSecrets == [1..SecretLen -> HexDigits]

\* the texts that match /^0x[a-fA-F0-9]{40}$/, character by character
CommitAddresses == { <<"0", "x">> \o d : d \in [1..AddressDigits -> HexDigits] }

CommitTriples ==
    [ board : ServerBoards, secret : CommitSecrets, playerAddress : CommitAddresses ]

ServerIdle == ServerInit /\ variant = "server.js"

InitCommit ==
    /\ ServerIdle
    /\ GenIdle
    /\ LedgerIdle
    /\ PlayIdle
    /\ proofInputs = << >>
    /\ proofOutputs = << >>
    /\ commitInputs \in CommitTriples \X CommitTriples
    /\ commitOutputs = << >>

\* the commitment of each triple, as new-game computes it
Commit ==
    /\ commitOutputs = << >>
    /\ commitOutputs' =
          [i \in 1..2 |-> Commitment(commitInputs[i].board, commitInputs[i].secret,
                                     commitInputs[i].playerAddress)]
    /\ UNCHANGED <<serverVars, commitInputs, proofInputs, proofOutputs, genVars, ledgerVars,
                   playVars>>

NextCommit == Commit

SpecCommit == InitCommit /\ [][NextCommit]_vars

-----------------------------------------------------------------------------
(* Proof engine: the proof of verify as a function of its inputs *)

\* the sessions new-game has stored: gameId -> playerAddress, with the secret
\* SecretOf(gameId)
ProofGames == [ { 1, 2 } -> Addresses ]

\* what a request body may carry as moves and as timeTaken and passes the
\* test of !moves and !timeTaken: numbers and texts, a digit or a colon to
\* the token
ProofValues ==
    { Num(1), Num(2), Str(<<"1">>), Str(<<"1", ":", "2">>), Str(<<"2", ":", "1">>) }

\* the requests that pass the checks of verify over the sessions stored
ProofRequests(stored) ==
    { a \in [ gameId : DOMAIN stored, moves : ProofValues, timeTaken : ProofValues,
              playerAddress : Addresses ] : stored[a.gameId] = a.playerAddress }

InitProof ==
    /\ ServerIdle
    /\ GenIdle
    /\ LedgerIdle
    /\ PlayIdle
    /\ commitInputs = << >>
    /\ commitOutputs = << >>
    /\ \E stored \in ProofGames : proofInputs \in ProofRequests(stored) \X ProofRequests(stored)
    /\ proofOutputs = << >>

\* the proof of each request, as verify computes it
Prove ==
    /\ proofOutputs = << >>
    /\ proofOutputs' =
          [i \in 1..2 |-> Proof(proofInputs[i].gameId, proofInputs[i].moves,
                                proofInputs[i].timeTaken, proofInputs[i].playerAddress,
                                SecretOf(proofInputs[i].gameId))]
    /\ UNCHANGED <<serverVars, commitInputs, commitOutputs, proofInputs, genVars, ledgerVars,
                   playVars>>

NextProof == Prove

SpecProof == InitProof /\ [][NextProof]_vars

-----------------------------------------------------------------------------
(* Board generator: generateMinefield(width, height, mineCount), step by step *)

\* largest side and largest mine count a call is given
GenMaxSide == 4
GenMaxMines == 2

\* Math.floor(Math.random() * n): any index below n (0 for n = 0, and for a
\* negative n any of n..0)
RandomBelow(n) == IF n > 0 THEN 0..(n - 1) ELSE n..0

\* the test board[y][x] === "X" on a mine that is never recognised
NeverMine(b, x, y) == FALSE

\* board[y][x] === "X" (a cell outside its row is undefined, not "X")
IsMine(b, x, y) == x \in DOMAIN b[y] /\ b[y][x] = X

\* the cells of a board that hold "X"
MinedCells(b) == { c \in UNION { (DOMAIN b[y]) \X {y} : y \in DOMAIN b } : b[c[2]][c[1]] = X }

InitGen ==
    /\ ServerIdle
    /\ CommitIdle
    /\ PlayIdle
    /\ LedgerIdle
    /\ genpc = "called"
    /\ width \in -1..GenMaxSide
    /\ height \in -1..GenMaxSide
    /\ mineCount \in -1..GenMaxMines
    /\ minefield = << >>
    /\ mines = 0

\* lines 43-48: Array(height).fill().map(() => Array(width).fill(0)); Array(n)
\* throws a RangeError for a negative n, and map calls Array(width) once per row
Allocate ==
    /\ genpc = "called"
    /\ IF height < 0 \/ (height > 0 /\ width < 0)
       THEN genpc' = "RangeError" /\ UNCHANGED minefield
       ELSE /\ genpc' = "place"
            /\ minefield' = [y \in 0..(height - 1) |-> [x \in 0..(width - 1) |-> 0]]
    /\ UNCHANGED <<width, height, mineCount, mines, serverVars, commitVars, ledgerVars, playVars>>

\* lines 50-58: one iteration of while (mines < mineCount)
Place ==
    /\ genpc = "place"
    /\ mines < mineCount
    /\ \E x \in RandomBelow(width), y \in RandomBelow(height) :
          IF InSafeArea(width, height, x, y)
          THEN UNCHANGED <<genpc, minefield, mines>>
          ELSE IF y \notin DOMAIN minefield
          THEN genpc' = "TypeError" /\ UNCHANGED <<minefield, mines>>
          ELSE IF IsMine(minefield, x, y)
          THEN UNCHANGED <<genpc, minefield, mines>>
          ELSE /\ minefield' = [minefield EXCEPT ![y] = (x :> X) @@ minefield[y]]
               /\ mines' = mines + 1
               /\ UNCHANGED genpc
    /\ UNCHANGED <<width, height, mineCount, serverVars, commitVars, ledgerVars, playVars>>

\* lines 60-82: the counting pass over y < height, x < width, then return board
Count ==
    /\ genpc = "place"
    /\ ~(mines < mineCount)
    /\ minefield' =
          [y \in DOMAIN minefield |-> [x \in DOMAIN minefield[y] |->
              IF x \in 0..(width - 1) /\ minefield[y][x] # X
              THEN NeighbourMines(width, height, MinedCells(minefield), x, y)
              ELSE minefield[y][x]]]
    /\ genpc' = "returned"
    /\ UNCHANGED <<width, height, mineCount, mines, serverVars, commitVars, ledgerVars, playVars>>

NextGen ==
    \/ Allocate
    \/ Place
    \/ Count

SpecGen == InitGen /\ [][NextGen]_vars

\* random sampling is fair: while the loop runs and a cell that can take a
\* mine is left, such a cell is drawn in the end
SpecGenFair ==
    /\ SpecGen
    /\ WF_vars(Allocate)
    /\ WF_vars(Place /\ mines' = mines + 1)
    /\ WF_vars(Count)

\* largest contestId that new-game is given
MaxContestId == 1000

\* a difficulty without its cap
DifficultyUncapped(contestId) == 3 + contestId \div 10

\* server.js 103: Math.min(3 + Math.floor(contestId / 10), 10)
Difficulty(contestId) == Min(3 + contestId \div 10, 10)

\* server.js 103-106: the parameters new-game gives to generateMinefield.
\* Math.floor(width * height * (0.12 + difficulty * 0.01)) is computed in
\* doubles; for the difficulties 3..10 it is the integer quotient below
\* (18, 23, 28, 35, 42, 51, 60, 71 mines)
NewGameParameters(contestId) ==
    LET difficulty == Difficulty(contestId)
        side == 8 + difficulty
    IN [ difficulty |-> difficulty,
         width |-> side,
         height |-> side,
         mineCount |-> (side * side * (12 + difficulty)) \div 100 ]

-----------------------------------------------------------------------------
(* Contest ledger: the contract MinesweeperChallenge (Solidity), one contest *)

\* last block time the model reaches
LedgerMaxTime == 2

\* type(uint256).max, scaled down to 20 bits
UintMax == 1048575

\* entry fees a contest is created with
EntryFees == { 250, 3 }

\* a commitment that is not zero
SomeCommitment == "0xc1"

\* the secret it was made from
SomeSecret == "0x51"

\* a move count whose composite score does not fit a uint256
HugeMoves == 2000

\* the values of one byte
ByteRange == 256

\* bytes32 _proof, scaled down to two bytes: the proof whose first byte is
\* `byte` and whose second byte is 0x11
ProofStarting(byte) == byte * ByteRange + 17

\* (_moves, _proof) of the submissions made
SubmitInputs ==
    { <<1, ProofStarting(3)>>, <<1, ProofStarting(7)>>, <<2, ProofStarting(3)>>,
      <<HugeMoves, ProofStarting(ByteRange - 1)>> }

InitLedger ==
    /\ ServerIdle
    /\ CommitIdle
    /\ PlayIdle
    /\ GenIdle
    /\ blockTimestamp = 0
    /\ currentContestId = 0
    /\ contest = NoContest
    /\ platformFeePercentage = 500
    /\ platformFeeReceiver = Deployer
    /\ ledgerBalance = 0
    /\ refusing \in { {}, { "p2" } }
    /\ lastCall = NoCall
    /\ language = "Solidity"
    /\ paid = NoPaid
    /\ txpc = "none"
    /\ txBefore = NoSnapshot

\* what a call that runs in one step leaves alone
callFrame ==
    <<blockTimestamp, refusing, language, txpc, txBefore, serverVars, commitVars, genVars, playVars>>

\* a failed require, or a panic: the call has no effect
Revert(fn, error) ==
    /\ lastCall' = [ fn |-> fn, ok |-> FALSE, error |-> error ]
    /\ UNCHANGED <<currentContestId, contest, platformFeePercentage, platformFeeReceiver,
                   ledgerBalance, paid>>

Done(fn) == lastCall' = [ fn |-> fn, ok |-> TRUE ]

\* onlyOwner
NotOwner == "Ownable: caller is not the owner"

\* an owner check that only the Solidity contract makes
OnlyOwnerNotInVyper(sender) ==
    IF sender = Deployer \/ language = "Vyper" THEN "" ELSE NotOwner

\* onlyOwner / assert msg.sender == self.owner: "" when the caller is the owner
OnlyOwner(sender) ==
    IF sender = Deployer THEN ""
    ELSE IF language = "Vyper" THEN "Only owner"
    ELSE NotOwner

\* the checks of createWeeklyContest, "" when all pass
CreateRejection(sender, startTime, endTime) ==
    IF OnlyOwner(sender) # "" THEN OnlyOwner(sender)
    ELSE IF ~(startTime < endTime) THEN "Invalid time range"
    ELSE IF ~(startTime >= blockTimestamp)
    THEN (IF language = "Vyper" THEN "Start time must be in future"
          ELSE "Start time must be in the future")
    ELSE ""

createWeeklyContest(sender, startTime, endTime, entryFee) ==
    /\ txpc = "none"
    /\ currentContestId = 0
    /\ IF CreateRejection(sender, startTime, endTime) # ""
       THEN Revert("createWeeklyContest", CreateRejection(sender, startTime, endTime))
       ELSE /\ currentContestId' = currentContestId + 1
            /\ contest' = [contest EXCEPT !.startTime = startTime, !.endTime = endTime,
                                          !.entryFee = entryFee]
            /\ Done("createWeeklyContest")
            /\ UNCHANGED <<platformFeePercentage, platformFeeReceiver, ledgerBalance, paid>>
    /\ UNCHANGED callFrame

\* the checks of enterContest without the one on hasEntered
EnterRejectionAllowsReentry(sender, value) ==
    IF ~(blockTimestamp >= contest.startTime) THEN "Contest not started"
    ELSE IF ~(blockTimestamp < contest.endTime) THEN "Contest ended"
    ELSE IF ~(value = contest.entryFee) THEN "Incorrect entry fee"
    ELSE ""

\* the checks of enterContest, "" when all pass
EnterRejection(sender, value) ==
    IF ~(blockTimestamp >= contest.startTime) THEN "Contest not started"
    ELSE IF ~(blockTimestamp < contest.endTime) THEN "Contest ended"
    ELSE IF ~(value = contest.entryFee) THEN "Incorrect entry fee"
    ELSE IF contest.hasEntered[sender] THEN "Already entered"
    ELSE ""

\* an entry recorded without its payment
EnteredPoolUnchanged(c, sender, value, commitment) ==
    [c EXCEPT !.players = IF language = "Solidity" THEN Append(@, sender) ELSE @,
              !.playerCount = IF language = "Vyper" THEN @ + 1 ELSE @,
              !.hasEntered[sender] = TRUE,
              !.commitments[sender] = commitment]

\* the entry recorded: in the array players (Solidity) or in playerCount (Vyper)
Entered(c, sender, value, commitment) ==
    [c EXCEPT !.players = IF language = "Solidity" THEN Append(@, sender) ELSE @,
              !.playerCount = IF language = "Vyper" THEN @ + 1 ELSE @,
              !.hasEntered[sender] = TRUE,
              !.commitments[sender] = commitment,
              !.totalPrizePool = @ + value]

enterContest(sender, value, commitment) ==
    /\ txpc = "none"
    /\ IF EnterRejection(sender, value) # ""
       THEN Revert("enterContest", EnterRejection(sender, value))
       ELSE /\ contest' = Entered(contest, sender, value, commitment)
            /\ ledgerBalance' = ledgerBalance + value
            /\ Done("enterContest")
            /\ UNCHANGED <<currentContestId, platformFeePercentage, platformFeeReceiver, paid>>
    /\ UNCHANGED callFrame

\* the secrets players reveal, and the commitment made from each
LedgerSecrets == { "0x51", "0x52" }

CommitmentFrom(secret) == IF secret = "0x51" THEN "0xc1" ELSE "0xc2"

\* checks that hold the revealed secret against the stored commitment
SubmitRejectionChecksSecret(sender, moves, secret) ==
    IF ~contest.hasEntered[sender] THEN "Not entered in contest"
    ELSE IF ~(blockTimestamp < contest.endTime) THEN "Contest ended"
    ELSE IF ~(moves > 0) THEN "Invalid move count"
    ELSE IF ~(contest.commitments[sender] # ZeroBytes32) THEN "No commitment found"
    ELSE IF contest.commitments[sender] # CommitmentFrom(secret) THEN "Invalid secret"
    ELSE ""

\* checks that let a submission in after the end of the contest
SubmitRejectionNoDeadline(sender, moves, secret) ==
    IF ~contest.hasEntered[sender] THEN "Not entered in contest"
    ELSE IF ~(moves > 0) THEN "Invalid move count"
    ELSE IF ~(contest.commitments[sender] # ZeroBytes32) THEN "No commitment found"
    ELSE ""

\* the checks of submitGameCompletion, "" when all pass; _secret is not read
SubmitRejection(sender, moves, secret) ==
    IF ~contest.hasEntered[sender] THEN "Not entered in contest"
    ELSE IF ~(blockTimestamp < contest.endTime) THEN "Contest ended"
    ELSE IF ~(moves > 0) THEN "Invalid move count"
    ELSE IF ~(contest.commitments[sender] # ZeroBytes32) THEN "No commitment found"
    ELSE ""

\* a score stored whatever the one before
BestScoreOverwritten(c, sender, moves, timeTaken) ==
    [c EXCEPT !.bestMoves[sender] = moves, !.bestTime[sender] = timeTaken]

\* lines 108-116: the best score kept (lowest moves), the time from _proof[0]
BestScore(c, sender, moves, timeTaken) ==
    IF c.bestMoves[sender] = 0 \/ moves < c.bestMoves[sender]
    THEN [c EXCEPT !.bestMoves[sender] = moves, !.bestTime[sender] = timeTaken]
    ELSE c

\* a time taken from the whole of _proof
FirstByteWholeProof(proof) == proof

\* uint256(uint8(_proof[0])) / convert(slice(_proof, 0, 1), uint256)
FirstByte(proof) == proof \div ByteRange

submitGameCompletion(sender, moves, secret, proof) ==
    /\ txpc = "none"
    /\ IF SubmitRejection(sender, moves, secret) # ""
       THEN Revert("submitGameCompletion", SubmitRejection(sender, moves, secret))
       ELSE /\ contest' = BestScore(contest, sender, moves, FirstByte(proof))
            /\ Done("submitGameCompletion")
            /\ UNCHANGED <<currentContestId, platformFeePercentage, platformFeeReceiver,
                           ledgerBalance, paid>>
    /\ UNCHANGED callFrame

\* a platform fee rounded up
PlatformFeeRoundedUp(pool, percentage) == (pool * percentage + 9999) \div 10000

\* (contest.totalPrizePool * platformFeePercentage) / 10000
PlatformFee(pool, percentage) == (pool * percentage) \div 10000

\* a score that weighs the time first
CompositeScoreTimeFirst(moves, time) == time * 1000 + moves

\* moves * 1000 + time
CompositeScore(moves, time) == moves * 1000 + time

\* winners and scores before the loop over the players
NoWinners ==
    [ winners |-> <<ZeroAddress, ZeroAddress, ZeroAddress>>,
      scores |-> <<UintMax, UintMax, UintMax>> ]

\* a player put in the third place when it is free, whatever the score
PlacedLast(top, player, score) ==
    IF top.winners[3] = ZeroAddress
    THEN [ winners |-> [top.winners EXCEPT ![3] = player],
           scores |-> [top.scores EXCEPT ![3] = score] ]
    ELSE top

\* lines 160-171: the first place j with score < scores[j] takes the player,
\* the places behind it shift down
Placed(top, player, score) ==
    LET better == { j \in 1..3 : score < top.scores[j] }
    IN IF better = {} THEN top
       ELSE LET j == CHOOSE m \in better : \A n \in better : m <= n
            IN [ winners |-> [k \in 1..3 |-> IF k < j THEN top.winners[k]
                                              ELSE IF k = j THEN player
                                              ELSE top.winners[k - 1]],
                 scores |-> [k \in 1..3 |-> IF k < j THEN top.scores[k]
                                             ELSE IF k = j THEN score
                                             ELSE top.scores[k - 1]] ]

\* lines 149-173: the loop over contest.players from index i on
RECURSIVE TopThree(_, _, _)
TopThree(c, i, top) ==
    IF i > Len(c.players) THEN top
    ELSE LET player == c.players[i]
             moves == c.bestMoves[player]
         IN IF moves = 0 THEN TopThree(c, i + 1, top)
            ELSE TopThree(c, i + 1,
                          Placed(top, player, CompositeScore(moves, c.bestTime[player])))

\* checked arithmetic: moves * 1000 + time of some ranked player exceeds uint256
ScoreOverflows(c) ==
    \E i \in 1..Len(c.players) :
        /\ c.bestMoves[c.players[i]] # 0
        /\ CompositeScore(c.bestMoves[c.players[i]], c.bestTime[c.players[i]]) > UintMax

\* shares of 50, 30 and 20 percent
PrizeShares(prizesToDistribute) ==
    << (prizesToDistribute * 50) \div 100,
       (prizesToDistribute * 30) \div 100,
       (prizesToDistribute * 20) \div 100 >>

\* lines 181-189: the transfers to the winners, in order
RECURSIVE PrizeTransfers(_, _, _)
PrizeTransfers(winners, prizeShares, i) ==
    IF i > 3 THEN << >>
    ELSE (IF winners[i] # ZeroAddress /\ prizeShares[i] > 0
          THEN << [ to |-> winners[i], value |-> prizeShares[i], kind |-> "prize" ] >>
          ELSE << >>) \o PrizeTransfers(winners, prizeShares, i + 1)

RECURSIVE SumValues(_)
SumValues(transfers) ==
    IF transfers = << >> THEN 0 ELSE Head(transfers).value + SumValues(Tail(transfers))

\* the fee and the prizes, and nothing to the owner
TransfersWithoutRemainder(c, percentage, feeReceiver) ==
    LET platformFee == PlatformFee(c.totalPrizePool, percentage)
        top == TopThree(c, 1, NoWinners)
    IN (IF platformFee > 0
        THEN << [ to |-> feeReceiver, value |-> platformFee, kind |-> "fee" ] >>
        ELSE << >>)
       \o PrizeTransfers(top.winners, PrizeShares(c.totalPrizePool - platformFee), 1)

\* every value transfer of a distributePrizes that runs to its end, in order;
\* kind tells the statement that made the transfer
Transfers(c, percentage, feeReceiver) ==
    LET platformFee == PlatformFee(c.totalPrizePool, percentage)
        prizesToDistribute == c.totalPrizePool - platformFee
        top == TopThree(c, 1, NoWinners)
        prizes == PrizeTransfers(top.winners, PrizeShares(prizesToDistribute), 1)
        totalSent == SumValues(prizes)
    IN (IF platformFee > 0
        THEN << [ to |-> feeReceiver, value |-> platformFee, kind |-> "fee" ] >>
        ELSE << >>)
       \o prizes
       \o (IF totalSent < prizesToDistribute
           THEN << [ to |-> Deployer, value |-> prizesToDistribute - totalSent,
                     kind |-> "remaining" ] >>
           ELSE << >>)

\* contest.players.length / contest.playerCount
PlayerCount(c) == IF language = "Vyper" THEN c.playerCount ELSE Len(c.players)

\* the checks without the one on prizesDistributed
DistributeRejectionSkipsDistributed(sender) ==
    IF OnlyOwner(sender) # "" THEN OnlyOwner(sender)
    ELSE IF ~(blockTimestamp >= contest.endTime) THEN "Contest not ended"
    ELSE IF ~(PlayerCount(contest) > 0) THEN "No players"
    ELSE ""

\* the checks of distributePrizes, "" when all pass
DistributeRejection(sender) ==
    IF OnlyOwner(sender) # "" THEN OnlyOwner(sender)
    ELSE IF ~(blockTimestamp >= contest.endTime) THEN "Contest not ended"
    ELSE IF contest.prizesDistributed THEN "Prizes already distributed"
    ELSE IF ~(PlayerCount(contest) > 0) THEN "No players"
    ELSE ""

\* Vyper, lines 118-124: the fee, then all prizes to the owner
VyperTransfers(c, percentage, feeReceiver) ==
    LET platformFee == PlatformFee(c.totalPrizePool, percentage)
        prizesToDistribute == c.totalPrizePool - platformFee
    IN (IF platformFee > 0
        THEN << [ to |-> feeReceiver, value |-> platformFee, kind |-> "fee" ] >>
        ELSE << >>)
       \o (IF prizesToDistribute > 0
           THEN << [ to |-> Deployer, value |-> prizesToDistribute, kind |-> "prizes" ] >>
           ELSE << >>)

\* what each account has received once the transfers are made
Paid(before, transfers) ==
    [a \in DOMAIN before |->
        LET ToAccount(t) == t.to = a
        IN before[a] + SumValues(SelectSeq(transfers, ToAccount))]

\* what a distributePrizes that ran to its end has done
Distribution(c, percentage, feeReceiver) ==
    LET platformFee == PlatformFee(c.totalPrizePool, percentage)
    IN [ fn |-> "distributePrizes", ok |-> TRUE,
         totalPrizePool |-> c.totalPrizePool,
         percentage |-> percentage,
         platformFee |-> platformFee,
         prizesToDistribute |-> c.totalPrizePool - platformFee,
         winners |-> TopThree(c, 1, NoWinners).winners,
         prizeShares |-> PrizeShares(c.totalPrizePool - platformFee),
         sends |-> IF language = "Vyper" THEN VyperTransfers(c, percentage, feeReceiver)
                   ELSE Transfers(c, percentage, feeReceiver) ]

\* distributePrizes of the Solidity contract as one transaction
distributePrizes(sender) ==
    /\ txpc = "none"
    /\ language = "Solidity"
    /\ LET sends == Transfers(contest, platformFeePercentage, platformFeeReceiver)
           platformFee == PlatformFee(contest.totalPrizePool, platformFeePercentage)
       IN IF DistributeRejection(sender) # ""
          THEN Revert("distributePrizes", DistributeRejection(sender))
          ELSE IF platformFee > 0 /\ platformFeeReceiver \in refusing
          THEN Revert("distributePrizes", "Platform fee transfer failed")
          ELSE IF ScoreOverflows(contest) THEN Revert("distributePrizes", "Panic(0x11)")
          ELSE IF \E i \in 1..Len(sends) : sends[i].kind = "prize" /\ sends[i].to \in refusing
          THEN Revert("distributePrizes", "Prize transfer failed")
          ELSE IF \E i \in 1..Len(sends) : sends[i].kind = "remaining" /\ sends[i].to \in refusing
          THEN Revert("distributePrizes", "Remaining prize transfer failed")
          ELSE /\ contest' = [contest EXCEPT !.prizesDistributed = TRUE]
               /\ ledgerBalance' = ledgerBalance - SumValues(sends)
               /\ paid' = Paid(paid, sends)
               /\ lastCall' = Distribution(contest, platformFeePercentage, platformFeeReceiver)
               /\ UNCHANGED <<currentContestId, platformFeePercentage, platformFeeReceiver>>
    /\ UNCHANGED callFrame

\* the checks of updatePlatformFee, "" when all pass
UpdateFeeRejection(sender, newFeePercentage) ==
    IF OnlyOwner(sender) # "" THEN OnlyOwner(sender)
    ELSE IF ~(newFeePercentage <= 1000) THEN "Fee too high"
    ELSE ""

updatePlatformFee(sender, newFeePercentage) ==
    /\ txpc = "none"
    /\ IF UpdateFeeRejection(sender, newFeePercentage) # ""
       THEN Revert("updatePlatformFee", UpdateFeeRejection(sender, newFeePercentage))
       ELSE /\ platformFeePercentage' = newFeePercentage
            /\ Done("updatePlatformFee")
            /\ UNCHANGED <<currentContestId, contest, platformFeeReceiver, ledgerBalance, paid>>
    /\ UNCHANGED callFrame

\* a block with a later timestamp
Tick ==
    /\ txpc = "none"
    /\ blockTimestamp < LedgerMaxTime
    /\ blockTimestamp' = blockTimestamp + 1
    /\ UNCHANGED <<currentContestId, contest, platformFeePercentage, platformFeeReceiver,
                   ledgerBalance, refusing, lastCall, language, paid, txpc, txBefore,
                   serverVars, commitVars, genVars, playVars>>

\* the number of addresses that have entered
EnteredCount == Cardinality({ a \in PlayerSet : contest.hasEntered[a] })

\* who may enter next: the players already in, and the one next in line
Entrants == { LedgerPlayers[i] : i \in 1..(IF EnteredCount < Len(LedgerPlayers)
                                             THEN EnteredCount + 1
                                             ELSE Len(LedgerPlayers)) }

\* the calls of a contest that runs to its payout: the owner creates it, the
\* players enter with the fee and a commitment and submit completions, the
\* owner may raise the fee, and the owner or a player asks for the payout
PayoutCreate == \E fee \in EntryFees : createWeeklyContest(Deployer, 1, 2, fee)

PayoutEnter == \E sender \in Entrants : enterContest(sender, contest.entryFee, SomeCommitment)

PayoutSubmit ==
    \E sender \in Entrants, i \in SubmitInputs :
        submitGameCompletion(sender, i[1], SomeSecret, i[2])

PayoutDistribute == \E sender \in { Deployer, "p1" } : distributePrizes(sender)

PayoutUpdateFee == updatePlatformFee(Deployer, 1000)

NextPayout ==
    \/ PayoutCreate
    \/ PayoutEnter
    \/ PayoutSubmit
    \/ PayoutDistribute
    \/ PayoutUpdateFee
    \/ Tick

SpecPayout == InitLedger /\ [][NextPayout]_vars

-----------------------------------------------------------------------------
(* Contest ledger: either contract, any caller, distributePrizes transfer by *)
(* transfer                                                                  *)

\* what a step of distributePrizes leaves alone
stepFrame ==
    <<blockTimestamp, refusing, language, currentContestId, platformFeePercentage,
      platformFeeReceiver, serverVars, commitVars, genVars, playVars>>

\* a failed transfer that ends the call and leaves what was done before it
RevertCallKeepsEffects(error) ==
    /\ txpc' = "none"
    /\ txBefore' = NoSnapshot
    /\ lastCall' = [ fn |-> "distributePrizes", ok |-> FALSE, error |-> error ]
    /\ UNCHANGED <<contest, ledgerBalance, paid>>

\* a failed require or assert, a failed send, or a panic in the middle of
\* the call: the state and the balances are those of before the call
RevertCall(error) ==
    /\ contest' = txBefore.contest
    /\ ledgerBalance' = txBefore.ledgerBalance
    /\ paid' = txBefore.paid
    /\ txpc' = "none"
    /\ txBefore' = NoSnapshot
    /\ lastCall' = [ fn |-> "distributePrizes", ok |-> FALSE, error |-> error ]

\* to.call{value: value}("") followed by require(success, error); send(to, value)
Pay(to, value, error, next) ==
    IF to \in refusing THEN RevertCall(error)
    ELSE /\ ledgerBalance' = ledgerBalance - value
         /\ paid' = [paid EXCEPT ![to] = @ + value]
         /\ txpc' = next
         /\ UNCHANGED <<contest, lastCall, txBefore>>

\* a transfer that is not made
Skip(next) ==
    /\ txpc' = next
    /\ UNCHANGED <<contest, ledgerBalance, paid, lastCall, txBefore>>

\* the text of a failed send: Vyper gives none
SendFailed(text) == IF language = "Vyper" THEN "send failed" ELSE text

\* the checks at the head of distributePrizes
DistributeBegin(sender) ==
    /\ txpc = "none"
    /\ IF DistributeRejection(sender) # ""
       THEN /\ Revert("distributePrizes", DistributeRejection(sender))
            /\ UNCHANGED <<txpc, txBefore>>
       ELSE /\ txpc' = "fee"
            /\ txBefore' = [ contest |-> contest, ledgerBalance |-> ledgerBalance,
                             paid |-> paid ]
            /\ UNCHANGED <<contest, ledgerBalance, paid, lastCall>>
    /\ UNCHANGED stepFrame

\* Solidity 131-138, Vyper 115-119
DistributeFee ==
    /\ txpc = "fee"
    /\ LET platformFee == PlatformFee(contest.totalPrizePool, platformFeePercentage)
           next == IF language = "Vyper" THEN "prizes" ELSE "rank"
       IN IF platformFee > 0
          THEN Pay(platformFeeReceiver, platformFee, SendFailed("Platform fee transfer failed"),
                   next)
          ELSE Skip(next)
    /\ UNCHANGED stepFrame

\* Solidity 141-173: the winners; moves * 1000 + time is checked arithmetic
DistributeRank ==
    /\ txpc = "rank"
    /\ IF ScoreOverflows(contest) THEN RevertCall("Panic(0x11)") ELSE Skip("prize1")
    /\ UNCHANGED stepFrame

\* Solidity 182-189, one turn of the loop
DistributePrize(i) ==
    /\ txpc = <<"prize1", "prize2", "prize3">>[i]
    /\ LET platformFee == PlatformFee(contest.totalPrizePool, platformFeePercentage)
           winners == TopThree(contest, 1, NoWinners).winners
           prizeShares == PrizeShares(contest.totalPrizePool - platformFee)
           next == <<"prize2", "prize3", "remaining">>[i]
       IN IF winners[i] # ZeroAddress /\ prizeShares[i] > 0
          THEN Pay(winners[i], prizeShares[i], "Prize transfer failed", next)
          ELSE Skip(next)
    /\ UNCHANGED stepFrame

\* Solidity 192-196
DistributeRemaining ==
    /\ txpc = "remaining"
    /\ LET platformFee == PlatformFee(contest.totalPrizePool, platformFeePercentage)
           prizesToDistribute == contest.totalPrizePool - platformFee
           totalSent == SumValues(PrizeTransfers(TopThree(contest, 1, NoWinners).winners,
                                                 PrizeShares(prizesToDistribute), 1))
       IN IF totalSent < prizesToDistribute
          THEN Pay(Deployer, prizesToDistribute - totalSent, "Remaining prize transfer failed",
                   "mark")
          ELSE Skip("mark")
    /\ UNCHANGED stepFrame

\* Vyper 123-124
DistributeAllToOwner ==
    /\ txpc = "prizes"
    /\ LET platformFee == PlatformFee(contest.totalPrizePool, platformFeePercentage)
           prizesToDistribute == contest.totalPrizePool - platformFee
       IN IF prizesToDistribute > 0
          THEN Pay(Deployer, prizesToDistribute, SendFailed(""), "mark")
          ELSE Skip("mark")
    /\ UNCHANGED stepFrame

\* Solidity 198, Vyper 126: the last statement of the call
DistributeMark ==
    /\ txpc = "mark"
    /\ contest' = [contest EXCEPT !.prizesDistributed = TRUE]
    /\ lastCall' = Distribution(contest, platformFeePercentage, platformFeeReceiver)
    /\ txpc' = "none"
    /\ txBefore' = NoSnapshot
    /\ UNCHANGED <<ledgerBalance, paid>>
    /\ UNCHANGED stepFrame

\* the contract of either language after its constructor; the owner's
\* account or the first player's may reject payments
InitLedgerWide ==
    /\ ServerIdle
    /\ CommitIdle
    /\ PlayIdle
    /\ GenIdle
    /\ blockTimestamp = 0
    /\ currentContestId = 0
    /\ contest = NoContest
    /\ platformFeePercentage = 500
    /\ platformFeeReceiver = Deployer
    /\ ledgerBalance = 0
    /\ refusing \in { {}, { "p1" }, { Deployer } }
    /\ lastCall = NoCall
    /\ language \in { "Solidity", "Vyper" }
    /\ paid = NoPaid
    /\ txpc = "none"
    /\ txBefore = NoSnapshot

\* the accounts that call, and the two that enter, named in the order in
\* which they enter
Callers == { Deployer, "p1", "p2" }

LedgerEntrants == Entrants \cap { "p1", "p2" }

\* time windows a contest is created with: one that is good until time 1 has
\* passed, and one that ends before it starts
Windows == { <<1, 2>>, <<2, 1>> }

\* commitments sent with an entry
CommitmentInputs == { CommitmentFrom(x) : x \in LedgerSecrets } \cup { ZeroBytes32 }

\* (_moves, _proof) of the submissions sent; the last proof is 0xff11
WideSubmitInputs ==
    { <<0, ProofStarting(3)>>, <<1, ProofStarting(7)>>, <<2, ProofStarting(3)>>,
      <<HugeMoves, ProofStarting(ByteRange - 1)>> }

LedgerCreate ==
    \E sender \in { Deployer, "p1" }, window \in Windows :
        createWeeklyContest(sender, window[1], window[2], 250)

LedgerEnter ==
    \E sender \in LedgerEntrants, value \in { contest.entryFee, contest.entryFee + 1 },
       commitment \in CommitmentInputs :
        enterContest(sender, value, commitment)

LedgerSubmit ==
    \E sender \in { "p1", "p2" }, i \in WideSubmitInputs, secret \in LedgerSecrets :
        submitGameCompletion(sender, i[1], secret, i[2])

LedgerDistribute == \E sender \in { Deployer, "p1" } : DistributeBegin(sender)

LedgerUpdateFee ==
    \E sender \in { Deployer, "p1" }, fee \in { 1000, 1001 } : updatePlatformFee(sender, fee)

NextLedger ==
    \/ LedgerCreate
    \/ LedgerEnter
    \/ LedgerSubmit
    \/ LedgerDistribute
    \/ DistributeFee
    \/ DistributeRank
    \/ \E i \in 1..3 : DistributePrize(i)
    \/ DistributeRemaining
    \/ DistributeAllToOwner
    \/ DistributeMark
    \/ LedgerUpdateFee
    \/ Tick

SpecLedger == InitLedgerWide /\ [][NextLedger]_vars

-----------------------------------------------------------------------------
(* Play surface: the component MinesweeperGame of src/unnamed/part_000.  A  *)
(* click is handled without interruption; its flood fill is taken one loop  *)
(* iteration of revealEmptyCells at a time                                   *)

\* most flags standing at a time, most mines on a board
PlayMaxFlags == 2
PlayMaxMines == 1

\* the shapes of the boards played, width by height
PlayShapes == { <<4, 1>>, <<3, 2>> }

\* boards with correct counts
PlayBoards ==
    UNION { { CountedBoard(s[1], s[2], mined) :
                mined \in { m \in SUBSET ((0..(s[1] - 1)) \X (0..(s[2] - 1))) :
                              Cardinality(m) <= PlayMaxMines } } : s \in PlayShapes }

\* board[0].length, board.length
PlayWidth == Cardinality(DOMAIN playBoard[0])
PlayHeight == Cardinality(DOMAIN playBoard)

PlayCells == (0..(PlayWidth - 1)) \X (0..(PlayHeight - 1))

\* board[y][x] of the cell <<x, y>>
CellAt(c) == playBoard[c[2]][c[1]]

PlayMines == { c \in PlayCells : CellAt(c) = X }

\* the component as mounted with a board
InitPlay ==
    /\ ServerIdle
    /\ CommitIdle
    /\ GenIdle
    /\ LedgerIdle
    /\ playpc = "idle"
    /\ playBoard \in PlayBoards
    /\ revealedCells = {}
    /\ flaggedCells = {}
    /\ gameOver = FALSE
    /\ gameWon = FALSE
    /\ newRevealed = {}
    /\ frames = << >>
    /\ onCompleteCalls = 0

\* what the play surface never touches
playFrame == <<playBoard, serverVars, commitVars, genVars, ledgerVars>>

\* lines 33-43: isGameWon reads the state `revealed` of the render in which
\* the handler was made
isGameWon == \A c \in PlayCells : ~(CellAt(c) # X /\ c \notin revealedCells)

\* lines 46-73: handleCellClick up to the flood fill
handleCellClick(x, y) ==
    /\ playpc = "idle"
    /\ IF gameOver \/ gameWon \/ <<x, y>> \in revealedCells \/ <<x, y>> \in flaggedCells
       THEN UNCHANGED <<playpc, revealedCells, gameOver, newRevealed, frames>>
       ELSE IF CellAt(<<x, y>>) = X
       THEN /\ gameOver' = TRUE
            /\ revealedCells' = revealedCells \cup PlayMines
            /\ UNCHANGED <<playpc, newRevealed, frames>>
       ELSE /\ newRevealed' = revealedCells \cup { <<x, y>> }
            /\ IF CellAt(<<x, y>>) = 0
               THEN /\ frames' = << [ x |-> x, y |-> y, k |-> 0 ] >>
                    /\ playpc' = "revealEmptyCells"
               ELSE /\ playpc' = "setRevealed"
                    /\ UNCHANGED frames
            /\ UNCHANGED <<revealedCells, gameOver>>
    /\ UNCHANGED <<flaggedCells, gameWon, onCompleteCalls>>
    /\ UNCHANGED playFrame

\* a test that lets the flood fill into flagged cells
MayRevealFlagged(n) ==
    /\ n[1] >= 0 /\ n[1] < PlayWidth
    /\ n[2] >= 0 /\ n[2] < PlayHeight
    /\ n \notin newRevealed

\* lines 108-115: within bounds, not revealed yet, not flagged
MayReveal(n) ==
    /\ n[1] >= 0 /\ n[1] < PlayWidth
    /\ n[2] >= 0 /\ n[2] < PlayHeight
    /\ n \notin newRevealed
    /\ n \notin flaggedCells

\* lines 98-125: one iteration of the loops over dy and dx in the innermost
\* call of revealEmptyCells (k counts the iterations made), or its return
revealEmptyCells ==
    /\ playpc = "revealEmptyCells"
    /\ LET f == frames[Len(frames)]
           n == << f.x + (f.k % 3) - 1, f.y + (f.k \div 3) - 1 >>
           callers == SubSeq(frames, 1, Len(frames) - 1)
           next == Append(callers, [f EXCEPT !.k = @ + 1])
       IN IF f.k = 9
          THEN /\ frames' = callers
               /\ playpc' = IF callers = << >> THEN "setRevealed" ELSE playpc
               /\ UNCHANGED newRevealed
          ELSE IF n = << f.x, f.y >> \/ ~MayReveal(n)
          THEN /\ frames' = next
               /\ UNCHANGED <<playpc, newRevealed>>
          ELSE /\ newRevealed' = newRevealed \cup { n }
               /\ frames' = IF CellAt(n) = 0
                            THEN Append(next, [ x |-> n[1], y |-> n[2], k |-> 0 ])
                            ELSE next
               /\ UNCHANGED playpc
    /\ UNCHANGED <<revealedCells, flaggedCells, gameOver, gameWon, onCompleteCalls>>
    /\ UNCHANGED playFrame

\* lines 75-83: setRevealed(newRevealed), onMove(), and the test for a win
handleCellClickEnd ==
    /\ playpc = "setRevealed"
    /\ revealedCells' = newRevealed
    /\ IF isGameWon
       THEN /\ gameWon' = TRUE
            /\ gameOver' = TRUE
            /\ onCompleteCalls' = onCompleteCalls + 1
       ELSE UNCHANGED <<gameWon, gameOver, onCompleteCalls>>
    /\ newRevealed' = {}
    /\ playpc' = "idle"
    /\ UNCHANGED <<flaggedCells, frames>>
    /\ UNCHANGED playFrame

\* lines 87-95: the flag of a cell set or taken away
handleContextMenu(x, y) ==
    /\ playpc = "idle"
    /\ IF gameOver \/ gameWon \/ <<x, y>> \in revealedCells
       THEN UNCHANGED flaggedCells
       ELSE IF <<x, y>> \in flaggedCells
       THEN flaggedCells' = flaggedCells \ { <<x, y>> }
       ELSE /\ Cardinality(flaggedCells) < PlayMaxFlags
            /\ flaggedCells' = flaggedCells \cup { <<x, y>> }
    /\ UNCHANGED <<playpc, revealedCells, gameOver, gameWon, newRevealed, frames,
                   onCompleteCalls>>
    /\ UNCHANGED playFrame

NextPlay ==
    \/ \E c \in PlayCells : handleCellClick(c[1], c[2])
    \/ revealEmptyCells
    \/ handleCellClickEnd
    \/ \E c \in PlayCells : handleContextMenu(c[1], c[2])

\* a handler that has started runs to its end
SpecPlay ==
    /\ InitPlay
    /\ [][NextPlay]_vars
    /\ WF_vars(revealEmptyCells)
    /\ WF_vars(handleCellClickEnd)

-----------------------------------------------------------------------------
(* Server and ledger together: completions verified by the server and then *)
(* submitted to the contract, as the client of src/scripts/App.jsx does     *)

\* the ledger account of a player address
Account(playerAddress) == IF playerAddress = <<"0xA">> THEN "p1" ELSE "p2"

\* (moves, timeTaken) of the completions the client reports
ReplayScores == { <<Num(1), Num(3)>>, <<Num(1), Num(7)>>, <<Num(2), Num(3)>> }

\* the first two bytes of the SHA-256 digest of the texts verify hashes,
\* computed with gameId n written as n in 32 hex digits, its secret as n in
\* 64 hex digits, and the addresses as 0xAA..A and 0xBB..B
Sha256Prefixes ==
    (<<"g", "1", ":", "1", ":", "3", ":", "0xA", ":", "s", "1">> :> 31410)
    @@ (<<"g", "1", ":", "1", ":", "7", ":", "0xA", ":", "s", "1">> :> 42728)
    @@ (<<"g", "1", ":", "2", ":", "3", ":", "0xA", ":", "s", "1">> :> 64890)
    @@ (<<"g", "1", ":", "2", ":", "7", ":", "0xA", ":", "s", "1">> :> 10650)
    @@ (<<"g", "2", ":", "1", ":", "3", ":", "0xB", ":", "s", "2">> :> 9833)
    @@ (<<"g", "2", ":", "1", ":", "7", ":", "0xB", ":", "s", "2">> :> 16618)
    @@ (<<"g", "2", ":", "2", ":", "3", ":", "0xB", ":", "s", "2">> :> 44110)
    @@ (<<"g", "2", ":", "2", ":", "7", ":", "0xB", ":", "s", "2">> :> 34117)

\* the bytes32 that the hex text of a proof stands for, scaled down to its
\* first two bytes
Bytes32(proof) == Sha256Prefixes[proof[3]]

\* two players have entered the contest with the commitments of their
\* sessions and the contest runs; nothing is completed yet
InitReplay ==
    /\ variant \in { "server.js", "boardState" }
    /\ \E b \in ServerBoards :
          games = (1 :> NewGame(1, <<"0xA">>, 1, b, SecretOf(1)))
                    @@ (2 :> NewGame(2, <<"0xB">>, 1, b, SecretOf(2)))
    /\ leaderboard = << >>
    /\ nextGameId = 2
    /\ pc = [r \in Reqs |-> "idle"]
    /\ args = [r \in Reqs |-> NoArgs]
    /\ local = [r \in Reqs |-> NoLocal]
    /\ reply = NoReply
    /\ accepted = [g \in 0..MaxReq |-> 0]
    /\ owner = [g \in 0..MaxReq |->
                  IF g = 1 THEN <<"0xA">> ELSE IF g = 2 THEN <<"0xB">> ELSE NoAddress]
    /\ sent = {}
    /\ CommitIdle
    /\ PlayIdle
    /\ GenIdle
    /\ language = "Solidity"
    /\ blockTimestamp = 1
    /\ currentContestId = 1
    /\ contest = Entered(Entered([NoContest EXCEPT !.startTime = 1, !.endTime = 2,
                                                   !.entryFee = 250],
                                 "p1", 250, SomeCommitment),
                         "p2", 250, SomeCommitment)
    /\ platformFeePercentage = 500
    /\ platformFeeReceiver = Deployer
    /\ ledgerBalance = 500
    /\ refusing = {}
    /\ lastCall = NoCall
    /\ paid = NoPaid
    /\ txpc = "none"
    /\ txBefore = NoSnapshot

\* App.jsx 110-119: the client reports the completion of its session
ReplayVerify(r) ==
    /\ Quiet
    /\ \E g \in { 1, 2 }, score \in ReplayScores :
          VerifyFind(r, g, score, owner[g], BoardStateSent(StateShowing(AllCells)))

\* App.jsx 121-126: submitGameCompletion(currentContest.id, moves,
\* data.secret, data.proof) with the response of the verify just accepted
ReplaySubmit ==
    /\ Quiet
    /\ reply.args.op = "verify"
    /\ reply.res.status = 200
    /\ submitGameCompletion(Account(reply.args.playerAddress), reply.args.moves.v,
                            reply.res.body.secret, Bytes32(reply.res.body.proof))

ReplayDistribute == distributePrizes(Deployer)

NextReplay ==
    \/ \E r \in Reqs : ReplayVerify(r)
    \/ \E r \in Reqs : VerifyUpdate(r)
    \/ \E r \in Reqs : VerifyInsert(r)
    \/ ReplaySubmit
    \/ Tick
    \/ ReplayDistribute

SpecReplay == InitReplay /\ [][NextReplay]_vars

-----------------------------------------------------------------------------
(* Game server: what the claims speak of *)

\* the last response answers a request of kind `op`
Answered(op) == reply.args.op = op

Accepted == reply.res.status = 200

RejectedWith(text) == reply.res.status # 200 /\ reply.res.body.error = text

\* a positive number
Positive(v) == v.t = "number" /\ v.v > 0

\* a verify request with every parameter present and of the expected kind
WellFormedVerify(a) ==
    /\ a.op = "verify"
    /\ a.gameId # 0
    /\ Positive(a.moves)
    /\ Positive(a.timeTaken)
    /\ IsAddress(a.playerAddress)
    /\ (variant = "boardState" => a.boardState.t = "object")

\* a verify request sent by the player the session was created for
ByOwner(a) == a.gameId # 0 /\ IsAddress(a.playerAddress) /\ owner[a.gameId] = a.playerAddress

\* number of completion records the leaderboard holds for a gameId
Completions(g) == Cardinality({ i \in 1..Len(leaderboard) : leaderboard[i].gameId = g })

\* a verify handler is between its awaits for gameId g
VerifyInProgress(g) ==
    \E r \in Reqs : pc[r] \in { "verify:update", "verify:insert" } /\ args[r].gameId = g

\* the win condition: every non-mine cell revealed, no mine revealed
Solves(state, board) ==
    /\ state.t = "object"
    /\ \A c \in AllCells : state.revealed[c[2]][c[1]] = (board[c[2]][c[1]] # X)

\* C1: of the verify requests for one session that are handled concurrently,
\* exactly one is answered with success (the others with 'Game already
\* completed'): no gameId ever has two successful verify responses.
C1_OneSuccessPerSession == \A g \in 1..MaxReq : accepted[g] <= 1

C3_OneCompletionRecordPerSession ==
    \A g \in 1..MaxReq :
        /\ Completions(g) <= 1
        /\ (g \in DOMAIN games /\ games[g].completed /\ ~VerifyInProgress(g))
              => Completions(g) = 1

\* C4: a verify is answered with success only if the submitted solution
\* state reveals every non-mine cell of the stored board and no mine.
C4_AcceptedOnlyIfSolved ==
    (Answered("verify") /\ Accepted /\ reply.args.gameId \in DOMAIN games) =>
        Solves(reply.args.boardState, games[reply.args.gameId].board)

\* the request that arrives in this step, if request r does
ArrivingArgs(r) == IF pc'[r] = "done" THEN reply'.args ELSE args'[r]

Arrives(r, op) == pc[r] = "idle" /\ pc'[r] # "idle" /\ ArrivingArgs(r).op = op

\* the sessions of a player in a contest that are not completed
IncompleteSessions(playerAddress, contestId) ==
    { g \in DOMAIN games :
        /\ games[g].playerAddress = playerAddress
        /\ games[g].contestId = contestId
        /\ ~games[g].completed }

\* a response is sent in this step, to a request of kind `op`
Answers(op) == reply' # reply /\ reply'.args.op = op

\* C5: a new-game request that arrives while its player has a session with
\* completed = false for its contest is answered at once with the gameId and
\* the commitment of such a session, and creates no session.
C5_ActiveSessionReturned ==
    [][\A r \in Reqs :
        (/\ Arrives(r, "new-game")
         /\ IncompleteSessions(ArrivingArgs(r).playerAddress, ArrivingArgs(r).contestId) # {})
        => /\ pc'[r] = "done"
           /\ reply'.req = r
           /\ reply'.res.status = 200
           /\ reply'.res.body.gameId \in
                IncompleteSessions(reply'.args.playerAddress, reply'.args.contestId)
           /\ reply'.res.body.commitment = games[reply'.res.body.gameId].commitment
           /\ games' = games
           /\ nextGameId' = nextGameId]_vars

\* C5 witness: a new-game answered with a session created before the latest one
C5_Witness_ExistingSessionReturned ==
    /\ Answered("new-game") /\ Accepted
    /\ reply.res.body.gameId < nextGameId
    /\ reply.res.body.gameId \in IncompleteSessions(reply.args.playerAddress, reply.args.contestId)

\* C6: the secret of a session has been sent only if the session is
\* completed; only a successful verify response carries a secret, and it
\* carries the secret of its own session.
C6_SecretOnlyAfterCompletion ==
    /\ \A g \in DOMAIN games : games[g].secret \in sent => games[g].completed
    /\ SecretsIn(reply.res) # {} =>
          /\ Answered("verify") /\ Accepted
          /\ SecretsIn(reply.res) = { SecretOf(reply.args.gameId) }

\* C6 witness: a completed session whose secret was sent, and a session of
\* which no secret was sent
C6_Witness_SecretSent ==
    /\ \E g \in DOMAIN games : games[g].completed /\ games[g].secret \in sent
    /\ \E g \in DOMAIN games : ~games[g].completed /\ games[g].secret \notin sent

\* C7: fetch-board returns the board of the session when the address of the
\* request is the address stored in the session; for any other address it
\* answers 403 and returns no board.
C7_BoardOnlyToOwner ==
    [][Answers("game") =>
        LET a == reply'.args
        IN IF a.gameId \in DOMAIN games /\ games[a.gameId].playerAddress = a.playerAddress
           THEN /\ reply'.res.status = 200
                /\ reply'.res.body.board = games[a.gameId].board
           ELSE /\ reply'.res.status # 200
                /\ "board" \notin DOMAIN reply'.res.body
                /\ (a.gameId # 0 /\ a.playerAddress # NoAddress) => reply'.res.status = 403]_vars

\* C7 witness: a fetch of an existing session by another address, answered 403
C7_Witness_OtherAddressRejected ==
    /\ Answered("game")
    /\ reply.args.gameId \in DOMAIN games
    /\ IsAddress(reply.args.playerAddress)
    /\ games[reply.args.gameId].playerAddress # reply.args.playerAddress
    /\ reply.res.status = 403

\* C8: once a verify for a session was answered with success, no fetch-board
\* returns the board of that session.
C8_NoBoardAfterCompletion ==
    ~(Answered("game") /\ Accepted /\ accepted[reply.args.gameId] >= 1)

C10_AcceptedOnlyPositiveBounded ==
    (Answered("verify") /\ Accepted) =>
        /\ Positive(reply.args.moves) /\ reply.args.moves.v < HugeNumber
        /\ Positive(reply.args.timeTaken) /\ reply.args.timeTaken.v < HugeNumber

\* C11: the commitment is a function of (board, secret, playerAddress), and
\* two triples of a generated board, a secret of the fixed length and a
\* well-formed address have the same commitment only if they are the same
\* triple: a difference in any component changes the hashed text.
C11_CommitmentDeterminedByTriple ==
    commitOutputs # << >> =>
        ((commitInputs[1] = commitInputs[2]) <=> (commitOutputs[1] = commitOutputs[2]))

\* C11 witness: two triples that differ in the secret only, with different commitments
C11_Witness_SecretChangesCommitment ==
    /\ commitOutputs # << >>
    /\ commitInputs[1].board = commitInputs[2].board
    /\ commitInputs[1].playerAddress = commitInputs[2].playerAddress
    /\ commitInputs[1].secret # commitInputs[2].secret
    /\ commitOutputs[1] # commitOutputs[2]

\* the proof as a client recomputes it from the fields of its request and a secret text
RecomputedProof(a, secret) ==
    <<"0x">> \o sha256hex(GameIdString(a.gameId) \o <<":">> \o TemplateString(a.moves)
                          \o <<":">> \o TemplateString(a.timeTaken) \o <<":">>
                          \o a.playerAddress \o <<":">> \o secret)

MineCells == Cardinality(MinedCells(minefield))

C14_SafeRegionHasNoMine ==
    \A c \in MinedCells(minefield) :
        ~(/\ c[1] - (width \div 2) \in -1..1
          /\ c[2] - (height \div 2) \in -1..1)

\* C14 witness: the placement loop with a mine placed and another still to place
C14_Witness_LoopWithMine == genpc = "place" /\ mines >= 1 /\ mines < mineCount

\* the mines among the Moore neighbours of (x, y), counted over the mined cells
MinesAround(x, y) ==
    Cardinality({ c \in MinedCells(minefield) :
        /\ c # <<x, y>>
        /\ c[1] - x \in -1..1
        /\ c[2] - y \in -1..1 })

\* C15: in the returned board every cell that is not a mine holds the
\* number, 0..8, of "X" cells among its neighbours inside the grid.
C15_CountsAreNeighbourMines ==
    genpc = "returned" =>
        \A y \in DOMAIN minefield : \A x \in DOMAIN minefield[y] :
            minefield[y][x] # X =>
                minefield[y][x] \in 0..8 /\ minefield[y][x] = MinesAround(x, y)

\* C15 witness: a returned board with a cell that has two mines around it
C15_Witness_CellCountingTwo ==
    /\ genpc = "returned"
    /\ \E y \in DOMAIN minefield : \E x \in DOMAIN minefield[y] : minefield[y][x] = 2

\* the parameters the specification calls invalid
InvalidParameters == mineCount >= width * height \/ width <= 0 \/ height <= 0

\* C16: a call with mineCount >= width*height or a non-positive width or
\* height ends with an InvalidParameters error: it returns no board and ends
\* in no other way.
C16_InvalidParametersRejected ==
    InvalidParameters => genpc \in { "called", "place", "InvalidParameters" }

\* the rows of the last leaderboard response, its contest and its limit
Rows == reply.res.body.leaderboard

RowLimit ==
    IF reply.args.limit # 0 THEN reply.args.limit
    ELSE IF variant = "server.js" THEN 3 ELSE 10

ContestRecords == { i \in 1..Len(leaderboard) : leaderboard[i].contestId = reply.args.contestId }

\* record d has fewer moves than row e, or as many and less time
Outranks(d, e) ==
    \/ d.moves.v < e.moves.v
    \/ d.moves.v = e.moves.v /\ d.timeTaken.v < e.timeTaken.v

RowOf(i) ==
    [ playerAddress |-> leaderboard[i].playerAddress,
      moves |-> leaderboard[i].moves,
      timeTaken |-> leaderboard[i].timeTaken ]

\* the completions [(A,10,50),(B,10,40),(C,9,99)] of one contest
ExampleCompletions == [i \in 1..3 |-> RankRecord(i, 1, << <<10, 50>>, <<10, 40>>, <<9, 99>> >>[i])]

\* C17: the leaderboard query returns only completion records of its
\* contest, in ascending order of moves and, among equal moves, of time,
\* cut to the limit: the rows are distinct records of the contest, no record
\* left out outranks a row, and [(A,10,50),(B,10,40),(C,9,99)] come as C, B, A.
C17_LeaderboardRankedAndTruncated ==
    Answered("leaderboard") =>
        /\ Len(Rows) = (IF Cardinality(ContestRecords) < RowLimit
                        THEN Cardinality(ContestRecords) ELSE RowLimit)
        /\ \E o \in [1..Len(Rows) -> ContestRecords] :
              /\ \A i, j \in 1..Len(Rows) : i # j => o[i] # o[j]
              /\ \A i \in 1..Len(Rows) : Rows[i] = RowOf(o[i])
              /\ \A i \in 1..Len(Rows) : \A d \in ContestRecords :
                    Outranks(leaderboard[d], Rows[i]) => \E j \in 1..Len(Rows) : o[j] = d
        /\ \A i, j \in 1..Len(Rows) : i < j => ~Outranks(Rows[j], Rows[i])
        /\ (leaderboard = ExampleCompletions /\ reply.args.contestId = 1 /\ RowLimit >= 3)
              => Rows = << RowOf(3), RowOf(2), RowOf(1) >>

\* C17 witness: the query answered over [(A,10,50),(B,10,40),(C,9,99)] with C, B, A
C17_Witness_ExampleRanked ==
    /\ Answered("leaderboard")
    /\ leaderboard = ExampleCompletions
    /\ Len(Rows) = 3
    /\ Rows[1].playerAddress = <<"0xC">>
    /\ Rows[2].playerAddress = <<"0xB">>
    /\ Rows[3].playerAddress = <<"0xA">>

-----------------------------------------------------------------------------
(* Contest ledger: what the claims speak of *)

\* the last call was a distributePrizes that ran to its end
Distributed == lastCall.fn = "distributePrizes" /\ lastCall.ok

\* the transfers of the last distributePrizes made by the statement `kind`
RECURSIVE SendsOfKind(_, _)
SendsOfKind(sends, kind) ==
    IF sends = << >> THEN << >>
    ELSE (IF Head(sends).kind = kind THEN << Head(sends) >> ELSE << >>)
         \o SendsOfKind(Tail(sends), kind)

Prizes == SendsOfKind(lastCall.sends, "prize")

\* the pool less the platform fee
Distributable == lastCall.totalPrizePool - lastCall.platformFee

\* the players with a recorded completion
Qualifying ==
    { contest.players[i] : i \in { k \in 1..Len(contest.players) :
                                      contest.bestMoves[contest.players[k]] > 0 } }

\* the composite score of a player, from the contest's records
ScoreOf(player) == contest.bestMoves[player] * 1000 + contest.bestTime[player]

C20_WholePoolPaidOut ==
    /\ Distributed =>
          /\ SumValues(SendsOfKind(lastCall.sends, "fee"))
                + SumValues(Prizes)
                + SumValues(SendsOfKind(lastCall.sends, "remaining")) = lastCall.totalPrizePool
          /\ lastCall.totalPrizePool = contest.totalPrizePool
          /\ \A i \in 1..Len(lastCall.sends) :
                lastCall.sends[i].kind = "remaining" =>
                   /\ lastCall.sends[i].to = Deployer
                   /\ lastCall.sends[i].value = Distributable - SumValues(Prizes)
          /\ SumValues(Prizes) < Distributable =>
                Len(SendsOfKind(lastCall.sends, "remaining")) = 1
    /\ contest.prizesDistributed => ledgerBalance = 0
    /\ ~contest.prizesDistributed => ledgerBalance = contest.totalPrizePool

\* C20 witness: three winners paid 5, 3 and 2 of a distributable 11, and the
\* 1 that rounding left goes to the owner
C20_Witness_RoundingRemainderToOwner ==
    /\ Distributed
    /\ lastCall.totalPrizePool = 12
    /\ Distributable = 11
    /\ Len(Prizes) = 3
    /\ SendsOfKind(lastCall.sends, "remaining")
          = << [ to |-> Deployer, value |-> 1, kind |-> "remaining" ] >>
    /\ ledgerBalance = 0

-----------------------------------------------------------------------------
(* Game server: the life of a session *)

\* the fields of a session that new-game writes and nothing is to change
Identity(game) ==
    << game.gameId, game.playerAddress, game.contestId, game.board, game.secret,
       game.commitment >>

\* request r runs the updateOne of verify in this step
UpdatesSession(r) == pc[r] = "verify:update" /\ pc'[r] = "verify:insert"

\* C25: in every step, a session that stays in the collection keeps its
\* gameId, playerAddress, contestId, board, secret and commitment; completed
\* never goes back to false; moves and timeTaken change only as completed
\* goes from false to true; and the updateOne of verify writes them at most
\* once: it never runs on a session that is already completed.
C25_SessionCompletedOnce ==
    [][ /\ \A g \in (DOMAIN games) \cap (DOMAIN games') :
              /\ Identity(games'[g]) = Identity(games[g])
              /\ games[g].completed => games'[g].completed
              /\ <<games'[g].moves, games'[g].timeTaken>> # <<games[g].moves, games[g].timeTaken>>
                    => ~games[g].completed /\ games'[g].completed
        /\ \A r \in Reqs :
              (UpdatesSession(r) /\ args[r].gameId \in DOMAIN games)
                 => ~games[args[r].gameId].completed ]_vars

-----------------------------------------------------------------------------
(* Proof engine: what the claims speak of *)

\* C29: any two distinct tuples (gameId, moves, timeTaken, playerAddress,
\* secret) that pass the checks of verify give distinct hashed strings
\* gameId:moves:timeTaken:playerAddress:secret (and so distinct proofs),
\* whatever moves and timeTaken the request bodies carry.
C29_DistinctTuplesDistinctProofs ==
    (proofOutputs # << >> /\ proofInputs[1] # proofInputs[2])
        => proofOutputs[1] # proofOutputs[2]

-----------------------------------------------------------------------------
(* Contest ledger: what the claims say of its calls *)

\* a call of distributePrizes passes its checks in this step
DistributionBegins == txpc = "none" /\ txpc' # "none"

\* a call of distributePrizes succeeds in this step
DistributionSucceeds == ~contest.prizesDistributed /\ contest'.prizesDistributed

\* C21: distributePrizes succeeds at most once, only when called by the owner
\* and only at a block time >= endTime: in every step, prizesDistributed once
\* true stays true, and from then on no distributePrizes passes its checks,
\* pays anything or is answered with success; a call that goes ahead or
\* succeeds finds block time >= endTime and prizesDistributed false, and a
\* call from another account than the owner never goes ahead.
C21_DistributedOnceByOwnerAfterEnd ==
    [][ /\ contest.prizesDistributed =>
              /\ contest'.prizesDistributed
              /\ ~DistributionBegins
              /\ paid' = paid /\ ledgerBalance' = ledgerBalance
              /\ (lastCall' # lastCall /\ lastCall'.fn = "distributePrizes") => ~lastCall'.ok
        /\ (DistributionBegins \/ DistributionSucceeds) =>
              /\ blockTimestamp >= contest.endTime
              /\ ~contest.prizesDistributed
        /\ DistributionSucceeds => lastCall'.fn = "distributePrizes" /\ lastCall'.ok
        /\ \A sender \in Callers \ { Deployer } :
              DistributeBegin(sender) => ~DistributionBegins /\ ~lastCall'.ok ]_vars

\* C21 witness: prizes distributed, and a later distributePrizes of the owner rejected
C21_Witness_SecondDistributionRejected ==
    /\ contest.prizesDistributed
    /\ paid # NoPaid
    /\ lastCall.fn = "distributePrizes"
    /\ ~lastCall.ok
    /\ lastCall.error = "Prizes already distributed"

\* every address that has entered is once in the player list (Solidity) or
\* counted once (Vyper), and no other address is
PlayersOnce ==
    /\ \A i, j \in 1..Len(contest.players) : i # j => contest.players[i] # contest.players[j]
    /\ language = "Solidity" =>
          \A a \in PlayerSet :
             contest.hasEntered[a] <=> \E i \in 1..Len(contest.players) : contest.players[i] = a
    /\ language = "Vyper" => contest.playerCount = EnteredCount
    /\ \A a \in PlayerSet : ~contest.hasEntered[a] => contest.commitments[a] = ZeroBytes32

\* address a enters in this step
Enters(a) == ~contest.hasEntered[a] /\ contest'.hasEntered[a]

\* C22: enterContest succeeds only when startTime <= block time < endTime,
\* the value sent equals entryFee and the caller has not entered; so each
\* address is at most once in the player list, and the commitment stored
\* with its entry is the only one it ever has: no later step replaces it.
C22_EnterOncePerAddress ==
    /\ []PlayersOnce
    /\ [][ /\ \A a \in PlayerSet :
                 /\ Enters(a) =>
                       /\ contest.startTime <= blockTimestamp
                       /\ blockTimestamp < contest.endTime
                       /\ ledgerBalance' - ledgerBalance = contest.entryFee
                       /\ contest'.totalPrizePool - contest.totalPrizePool = contest.entryFee
                       /\ \A b \in PlayerSet \ { a } : ~Enters(b)
                 /\ contest.hasEntered[a] =>
                       /\ contest'.hasEntered[a]
                       /\ contest'.commitments[a] = contest.commitments[a]
           /\ \A sender \in PlayerSet, d \in 0..1, commitment \in CommitmentInputs :
                 (lastCall'.ok /\ enterContest(sender, contest.entryFee + d, commitment)) =>
                       /\ d = 0
                       /\ ~contest.hasEntered[sender]
                       /\ Enters(sender)
                       /\ contest'.commitments[sender] = commitment
           /\ (contest'.players # contest.players \/ contest'.playerCount # contest.playerCount
                \/ contest'.totalPrizePool # contest.totalPrizePool)
                 => \E a \in PlayerSet : Enters(a) ]_vars

\* C22 witness: two players are in, and a second entry of one of them was rejected
C22_Witness_SecondEntryRejected ==
    /\ EnteredCount = 2
    /\ contest.totalPrizePool = 2 * contest.entryFee
    /\ lastCall.fn = "enterContest"
    /\ ~lastCall.ok
    /\ lastCall.error = "Already entered"

\* the lower of two move counts
Lower(m, n) == IF m < n THEN m ELSE n

\* C23: submitGameCompletion is rejected when the caller has not entered,
\* when block time >= endTime, or when _moves = 0, and it then changes
\* nothing; an accepted submission of m moves leaves the caller's bestMoves
\* at m if there was none and at the lower of m and the one before
\* otherwise, and nothing else changes bestMoves: so bestMoves is the
\* minimum over the accepted submissions.
C23_BestMovesIsMinimumOfAccepted ==
    [][ /\ \A sender \in { "p1", "p2" }, i \in WideSubmitInputs :
              (lastCall'.fn = "submitGameCompletion"
               /\ submitGameCompletion(sender, i[1], SomeSecret, i[2])) =>
                    /\ (~contest.hasEntered[sender] \/ blockTimestamp >= contest.endTime
                        \/ i[1] = 0)
                          => ~lastCall'.ok /\ contest' = contest
                    /\ lastCall'.ok =>
                          /\ contest'.bestMoves[sender]
                                = (IF contest.bestMoves[sender] = 0 THEN i[1]
                                   ELSE Lower(contest.bestMoves[sender], i[1]))
                          /\ \A a \in PlayerSet \ { sender } :
                                contest'.bestMoves[a] = contest.bestMoves[a]
        /\ contest'.bestMoves # contest.bestMoves =>
              lastCall'.fn = "submitGameCompletion" /\ lastCall'.ok ]_vars

\* C23 witness: a player whose best is 1 move in 7 seconds although 2 moves
\* were submitted too, and a submission of 0 moves rejected
C23_Witness_BestKeptZeroRejected ==
    /\ contest.bestMoves["p1"] = 1
    /\ contest.bestTime["p1"] = 7
    /\ contest.bestMoves["p2"] = 2
    /\ lastCall.fn = "submitGameCompletion"
    /\ ~lastCall.ok
    /\ lastCall.error = "Invalid move count"

\* the state of the ledger and the balances
Holdings ==
    [ contest |-> contest, ledgerBalance |-> ledgerBalance, paid |-> paid ]

\* a call is rejected in this step: at its checks, or part-way through
CallRejected ==
    /\ txpc' = "none"
    /\ ~lastCall'.ok
    /\ lastCall' # lastCall \/ txpc # "none"

\* what the accounts have received in all
RECURSIVE SumPaid(_, _)
SumPaid(p, accounts) ==
    IF accounts = {} THEN 0
    ELSE LET a == CHOOSE x \in accounts : TRUE
         IN p[a] + SumPaid(p, accounts \ { a })

\* C24: a rejected call leaves the ledger state and all balances as they
\* were before the call, whether it fails at a check or at a transfer in
\* the middle of distributePrizes after other transfers were made; the
\* state before a call in progress is the one held when its checks passed,
\* and every unit that left the contract since is with a recipient.
C24_RejectedCallHasNoEffect ==
    [][ /\ CallRejected =>
              /\ Holdings' = (IF txpc = "none" THEN Holdings ELSE txBefore)
              /\ UNCHANGED <<currentContestId, platformFeePercentage, platformFeeReceiver>>
        /\ DistributionBegins => txBefore' = Holdings
        /\ (txpc # "none" /\ txpc' # "none") => txBefore' = txBefore
        /\ txpc # "none" =>
              /\ contest = txBefore.contest
              /\ txBefore.ledgerBalance - ledgerBalance
                    = SumPaid(paid, DOMAIN paid) - SumPaid(txBefore.paid, DOMAIN paid) ]_vars

\* C24 witness: distributePrizes rejected at the transfer to a winner, after
\* the fee was paid: the pool is whole and nobody holds anything
C24_Witness_RejectedAtPrizeTransfer ==
    /\ lastCall.fn = "distributePrizes"
    /\ ~lastCall.ok
    /\ lastCall.error = "Prize transfer failed"
    /\ PlatformFee(contest.totalPrizePool, platformFeePercentage) > 0
    /\ ledgerBalance = contest.totalPrizePool
    /\ paid = NoPaid
    /\ ~contest.prizesDistributed

\* C26: distributePrizes marks the contest distributed before it makes its
\* first outbound transfer: while a call is in progress, a recipient holds
\* more than before the call only if prizesDistributed is already true
\* (enterContest makes no outbound transfer at all).
C26_MarkedBeforeFirstTransfer ==
    (txpc # "none" /\ paid # txBefore.paid) => contest.prizesDistributed

\* the rejections of distributePrizes that a failed transfer causes
TransferFailures ==
    { "Platform fee transfer failed", "Prize transfer failed",
      "Remaining prize transfer failed", "send failed" }

\* C27: when the transfer to one recipient fails in distributePrizes, the
\* other transfers are still made and the contest is distributed: a call
\* that met a failing transfer ends with prizesDistributed true.
C27_FailedTransferDoesNotBlock ==
    (lastCall.fn = "distributePrizes" /\ ~lastCall.ok /\ lastCall.error \in TransferFailures)
        => contest.prizesDistributed

\* C28: the ledger credits a completion without holding the revealed secret
\* against the stored commitment: for an entered caller with a non-zero
\* commitment, before endTime, a submission is accepted exactly if _moves >
\* 0 and then records the lower of _moves and the best so far, whatever
\* _secret and whatever the commitment; every step that is a submission
\* with one secret is the same submission with any other secret.
C28_CreditedWithoutCommitmentCheck ==
    [][ \A sender \in { "p1", "p2" }, i \in WideSubmitInputs, secret \in LedgerSecrets :
           (/\ lastCall'.fn = "submitGameCompletion"
            /\ contest.hasEntered[sender]
            /\ contest.commitments[sender] # ZeroBytes32
            /\ blockTimestamp < contest.endTime
            /\ submitGameCompletion(sender, i[1], secret, i[2])) =>
                 /\ lastCall'.ok <=> i[1] > 0
                 /\ lastCall'.ok =>
                       contest'.bestMoves[sender]
                          = (IF contest.bestMoves[sender] = 0 THEN i[1]
                             ELSE Lower(contest.bestMoves[sender], i[1]))
                 /\ \A other \in LedgerSecrets :
                       submitGameCompletion(sender, i[1], other, i[2]) ]_vars

\* C28 witness: a completion credited to a player while the server holds no
\* session and no completion record at all
C28_Witness_CreditedWithoutVerify ==
    /\ contest.commitments["p1"] = CommitmentFrom("0x52")
    /\ contest.bestMoves["p1"] = 1
    /\ lastCall.fn = "submitGameCompletion"
    /\ lastCall.ok
    /\ games = << >>
    /\ leaderboard = << >>

-----------------------------------------------------------------------------
(* Contest ledger: what the claims say of the ranking *)

\* player p has fewer moves than q, or as many and less time
MovesThenTime(p, q) ==
    \/ contest.bestMoves[p] < contest.bestMoves[q]
    \/ contest.bestMoves[p] = contest.bestMoves[q] /\ contest.bestTime[p] < contest.bestTime[q]

\* where a player stands in contest.players
EntryIndex(p) == CHOOSE i \in 1..Len(contest.players) : contest.players[i] = p

\* the qualifying players that come before p: those of fewer moves or equal
\* moves and less time, and of those that tie with p the ones who entered first
Ahead(p) ==
    { q \in Qualifying \ { p } :
        \/ MovesThenTime(q, p)
        \/ ~MovesThenTime(p, q) /\ EntryIndex(q) < EntryIndex(p) }

\* the composite score of every stored (bestMoves, bestTime) is a uint256
ScoresFit == \A p \in Qualifying : ScoreOf(p) <= UintMax

\* composite scores compare as (moves, time) pairs do
ScoresOrderAsMovesThenTime ==
    \A p, q \in Qualifying : ScoreOf(p) < ScoreOf(q) <=> MovesThenTime(p, q)

\* the winners of a distributePrizes that ran to its end are the three first
\* qualifying players by moves then time
WinnersAreThreeFirst ==
    Distributed =>
        \A r \in 1..3 :
            IF Cardinality(Qualifying) >= r
            THEN lastCall.winners[r] \in Qualifying
                 /\ Cardinality(Ahead(lastCall.winners[r])) = r - 1
            ELSE lastCall.winners[r] = ZeroAddress

-----------------------------------------------------------------------------
(* Contest ledger: the pool, the entrants and the end of the window *)

\* the pool or the number of entrants changes in this step
PoolOrEntrantsChange ==
    \/ contest'.totalPrizePool # contest.totalPrizePool
    \/ PlayerCount(contest') # PlayerCount(contest)

\* C37: in every ledger state totalPrizePool = entryFee * number of entrants
\* (players.length in Solidity, playerCount in Vyper), and only a successful
\* enterContest changes the pool or the number of entrants: it adds the fee
\* and one entrant.
C37_PoolIsFeeTimesEntrants ==
    /\ [](contest.totalPrizePool = contest.entryFee * PlayerCount(contest))
    /\ [][ PoolOrEntrantsChange =>
              /\ lastCall'.fn = "enterContest"
              /\ lastCall'.ok
              /\ txpc = "none"
              /\ contest'.totalPrizePool = contest.totalPrizePool + contest.entryFee
              /\ PlayerCount(contest') = PlayerCount(contest) + 1 ]_vars

\* C37 witness: two entrants at a fee of 250, the pool still 500 after the
\* contest was paid out
C37_Witness_PoolKeptAfterPayout ==
    /\ PlayerCount(contest) = 2
    /\ contest.entryFee = 250
    /\ contest.totalPrizePool = 500
    /\ contest.prizesDistributed

\* C38: while the contest runs, every address that has entered has some
\* submission that submitGameCompletion accepts.
C38_EntrantCanSubmit ==
    \A a \in { "p1", "p2" } :
        (contest.hasEntered[a] /\ blockTimestamp < contest.endTime) =>
            \E i \in WideSubmitInputs, secret \in LedgerSecrets :
                SubmitRejection(a, i[1], secret) = ""

\* the byte b that stands first in the two bytes of `proof`
StartsWith(proof, b) == b * 256 <= proof /\ proof < (b + 1) * 256

\* C39: bestTime of a player is at most 255, and it is 0 while bestMoves is
\* 0; an accepted submission that is the player's first or strictly lowers
\* bestMoves sets bestTime to the first byte of its _proof, any other
\* accepted submission (equal or more moves) leaves bestTime as it is, and
\* nothing else changes bestTime: so bestTime is the first proof byte of
\* the earliest accepted submission that set the current bestMoves.
C39_BestTimeIsByteOfBestSubmission ==
    /\ [](\A a \in PlayerSet :
              /\ contest.bestTime[a] \in 0..255
              /\ contest.bestMoves[a] = 0 => contest.bestTime[a] = 0)
    /\ [][ /\ \A sender \in PlayerSet, i \in SubmitInputs :
                 (lastCall'.fn = "submitGameCompletion" /\ lastCall'.ok
                  /\ submitGameCompletion(sender, i[1], SomeSecret, i[2])) =>
                       IF contest.bestMoves[sender] = 0 \/ i[1] < contest.bestMoves[sender]
                       THEN StartsWith(i[2], contest'.bestTime[sender])
                       ELSE contest'.bestTime[sender] = contest.bestTime[sender]
           /\ \A a \in PlayerSet :
                 contest'.bestTime[a] # contest.bestTime[a] =>
                    /\ lastCall'.fn = "submitGameCompletion"
                    /\ lastCall'.ok
                    /\ contest.bestMoves[a] = 0 \/ contest'.bestMoves[a] < contest.bestMoves[a] ]_vars

\* C39 witness: after an accepted submission, a player whose best is 1 move
\* at time byte 7 and a player whose time byte is 255
C39_Witness_EqualMovesKeepTime ==
    /\ <<contest.bestMoves["p1"], contest.bestTime["p1"]>> = <<1, 7>>
    /\ contest.bestTime["p2"] = 255
    /\ lastCall.fn = "submitGameCompletion"
    /\ lastCall.ok

\* the contest exists and its window is over: distributePrizes passes its
\* check on the time
ContestOver == currentContestId > 0 /\ blockTimestamp >= contest.endTime

\* what distributePrizes ranks and shares out
Ranked ==
    <<contest.players, contest.playerCount, contest.hasEntered, contest.totalPrizePool,
      contest.bestMoves, contest.bestTime>>

\* C40: block time never goes back, and once it has reached the endTime of
\* a contest, that contest stays over, every enterContest and every
\* submitGameCompletion for it is rejected, and the player list, the pool
\* and the best scores no longer change.
C40_NoEntryOrSubmissionOnceOver ==
    /\ [][blockTimestamp' >= blockTimestamp]_vars
    /\ [](ContestOver =>
             /\ \A sender \in PlayerSet, value \in { contest.entryFee, contest.entryFee + 1 } :
                   EnterRejection(sender, value) # ""
             /\ \A sender \in PlayerSet, i \in WideSubmitInputs, secret \in LedgerSecrets :
                   SubmitRejection(sender, i[1], secret) # "")
    /\ [][ ContestOver =>
              /\ ContestOver'
              /\ Ranked' = Ranked
              /\ (lastCall' # lastCall
                  /\ lastCall'.fn \in { "enterContest", "submitGameCompletion" })
                    => ~lastCall'.ok ]_vars

\* C40 witness: a contest with two players, one of them with a completion,
\* is over, and a submission that came after its end was rejected
C40_Witness_LateSubmissionRejected ==
    /\ ContestOver
    /\ PlayerCount(contest) = 2
    /\ contest.bestMoves["p1"] > 0
    /\ contest.bestMoves["p2"] = 0
    /\ lastCall.fn = "submitGameCompletion"
    /\ ~lastCall.ok
    /\ lastCall.error = "Contest ended"

-----------------------------------------------------------------------------
(* Game server: sessions in progress *)

\* C36: at most one session with completed == false for any playerAddress
\* and contestId.
C36_OneActiveSessionPerPlayerAndContest ==
    \A playerAddress \in Addresses, contestId \in ContestIds :
        Cardinality(IncompleteSessions(playerAddress, contestId)) <= 1

-----------------------------------------------------------------------------
(* Board generator: the parameters of new-game *)

\* generateMinefield is called on a board that holds its safe region of 9
\* cells and has room for mineCount mines outside of it
RoomForMines ==
    /\ genpc = "called"
    /\ width >= 3
    /\ height >= 3
    /\ mineCount >= 0
    /\ mineCount <= width * height - 9

\* C33: for every contestId >= 0 the parameters of new-game are a
\* difficulty of 3 + floor(contestId / 10) capped at 10, a square board of
\* side 8 + difficulty and floor(side * side * (12 + difficulty) / 100)
\* mines, which is at most side * side - 9; and with fair sampling a call
\* of generateMinefield with at most width * height - 9 mines returns.
C33_DerivedParametersTerminate ==
    /\ \A contestId \in 0..MaxContestId :
          LET p == NewGameParameters(contestId)
              d == IF contestId < 70 THEN 3 + contestId \div 10 ELSE 10
          IN /\ p.difficulty = d
             /\ p.width = 8 + d /\ p.height = 8 + d
             /\ p.mineCount * 100 <= p.width * p.height * (12 + d)
             /\ (p.mineCount + 1) * 100 > p.width * p.height * (12 + d)
             /\ p.mineCount >= 0
             /\ p.mineCount <= p.width * p.height - 9
    /\ RoomForMines ~> (genpc = "returned" /\ mines = mineCount)

\* C33 witness: a board of 4 by 3, which has 3 cells outside the safe
\* region, returned with 2 mines
C33_Witness_ReturnedWithMines ==
    /\ genpc = "returned"
    /\ width = 4
    /\ height = 3
    /\ mineCount = 2
    /\ mines = 2
    /\ Cardinality(MinedCells(minefield)) = 2

-----------------------------------------------------------------------------
(* Contest ledger: the two contracts side by side *)

\* the contest state the two contracts have in common
Common(c) ==
    [ startTime |-> c.startTime, endTime |-> c.endTime, entryFee |-> c.entryFee,
      totalPrizePool |-> c.totalPrizePool, hasEntered |-> c.hasEntered,
      commitments |-> c.commitments, bestMoves |-> c.bestMoves, bestTime |-> c.bestTime,
      numberOfPlayers |-> PlayerCount(c) ]

\* a call other than distributePrizes is made in this step
CallOf(fn) ==
    /\ lastCall'.fn = fn
    /\ txpc = "none"
    /\ txpc' = "none"
    /\ blockTimestamp' = blockTimestamp

\* one and the same machine, written without regard to the language: when
\* a call is accepted and what the common state is after it
CreateAccepted(sender, startTime, endTime) ==
    sender = Deployer /\ startTime < endTime /\ startTime >= blockTimestamp

EnterAccepted(sender, value) ==
    /\ contest.startTime <= blockTimestamp
    /\ blockTimestamp < contest.endTime
    /\ value = contest.entryFee
    /\ ~contest.hasEntered[sender]

SubmitAccepted(sender, moves) ==
    /\ contest.hasEntered[sender]
    /\ blockTimestamp < contest.endTime
    /\ moves > 0
    /\ contest.commitments[sender] # ZeroBytes32

AfterCreate(c, startTime, endTime, entryFee) ==
    [c EXCEPT !.startTime = startTime, !.endTime = endTime, !.entryFee = entryFee]

AfterEnter(c, sender, value, commitment) ==
    [c EXCEPT !.hasEntered[sender] = TRUE, !.commitments[sender] = commitment,
              !.totalPrizePool = @ + value, !.numberOfPlayers = @ + 1]

AfterSubmit(c, sender, moves, proof) ==
    IF c.bestMoves[sender] = 0 \/ moves < c.bestMoves[sender]
    THEN [c EXCEPT !.bestMoves[sender] = moves,
                   !.bestTime[sender] = CHOOSE b \in 0..255 : StartsWith(proof, b)]
    ELSE c

\* the outcome of a call: accepted with the common state as given, or
\* rejected with the common state as before
Outcome(isAccepted, after) ==
    /\ lastCall'.ok = isAccepted
    /\ Common(contest') = (IF isAccepted THEN after ELSE Common(contest))
    /\ currentContestId' = currentContestId + (IF isAccepted /\ lastCall'.fn = "createWeeklyContest" THEN 1 ELSE 0)

\* C32: whatever the language, createWeeklyContest, enterContest and
\* submitGameCompletion accept the same calls and leave the same common
\* state (window, fee, pool, entered set, commitments, best scores, number
\* of players), so the two contracts stay equal on the same calls; in
\* distributePrizes the Vyper contract pays the whole pool to the owner,
\* who is also the fee receiver, and nothing to any player, while the
\* Solidity contract pays a player as soon as one has a completion.
C32_SameLedgerButForPayout ==
    /\ [][ /\ CallOf("createWeeklyContest") =>
                 \A sender \in { Deployer, "p1" }, window \in Windows :
                    createWeeklyContest(sender, window[1], window[2], 250) =>
                       Outcome(CreateAccepted(sender, window[1], window[2]),
                               AfterCreate(Common(contest), window[1], window[2], 250))
           /\ CallOf("enterContest") =>
                 \A sender \in { "p1", "p2" },
                    value \in { contest.entryFee, contest.entryFee + 1 },
                    commitment \in CommitmentInputs :
                    enterContest(sender, value, commitment) =>
                       Outcome(EnterAccepted(sender, value),
                               AfterEnter(Common(contest), sender, value, commitment))
           /\ CallOf("submitGameCompletion") =>
                 \A sender \in { "p1", "p2" }, i \in WideSubmitInputs :
                    submitGameCompletion(sender, i[1], SomeSecret, i[2]) =>
                       Outcome(SubmitAccepted(sender, i[1]),
                               AfterSubmit(Common(contest), sender, i[1], i[2])) ]_vars
    /\ [](language = "Vyper" =>
             /\ \A p \in PlayerSet : paid[p] = 0
             /\ contest.prizesDistributed => paid[Deployer] = contest.totalPrizePool)
    /\ [](language = "Solidity" /\ contest.prizesDistributed =>
             \A p \in PlayerSet : contest.bestMoves[p] > 0 => \E q \in PlayerSet : paid[q] > 0)

\* C32 witness: the Vyper contract after its payout: a player with a
\* completion, two entries in the pool, all of it with the owner
C32_Witness_VyperPaysOwner ==
    /\ language = "Vyper"
    /\ contest.prizesDistributed
    /\ contest.bestMoves["p1"] = 1
    /\ contest.playerCount = 2
    /\ paid[Deployer] = 500
    /\ paid["p1"] = 0

-----------------------------------------------------------------------------
(* Play surface: what the claims speak of *)

\* the cells without a mine
SafeCells == PlayCells \ PlayMines

\* C34: the click that reveals the last unrevealed cell without a mine sets
\* gameWon and calls onComplete, once; onComplete is called at most once,
\* only with every such cell revealed and never after a mine was clicked.
C34_LastCellWins ==
    /\ [][ (playpc = "setRevealed" /\ SafeCells \subseteq newRevealed) =>
               (gameWon' /\ onCompleteCalls' = onCompleteCalls + 1) ]_vars
    /\ [](onCompleteCalls <= 1)
    /\ [][ onCompleteCalls' # onCompleteCalls =>
               (SafeCells \subseteq revealedCells' /\ PlayMines \cap revealedCells' = {}) ]_vars

\* the game is never won and onComplete is never called
NeverWon == ~gameWon /\ onCompleteCalls = 0

\* two cells that touch, by a side or by a corner
Touching(a, b) == a # b /\ Abs(a[1] - b[1]) <= 1 /\ Abs(a[2] - b[2]) <= 1

\* the zero-count cells of `through` joined to `region` by zero-count cells
\* of `through`
RECURSIVE ZeroRegion(_, _)
ZeroRegion(region, through) ==
    LET more == { c \in through \ region :
                    CellAt(c) = 0 /\ \E z \in region : Touching(z, c) }
    IN IF more = {} THEN region ELSE ZeroRegion(region \cup more, through)

\* the zero region of `start` within `through`, with the cells around it
RegionWithBorder(start, through) ==
    LET zeros == ZeroRegion({ start }, through)
    IN zeros \cup { c \in PlayCells : \E z \in zeros : Touching(z, c) }

\* the outermost call of revealEmptyCells returns in this step
FloodReturns == playpc = "revealEmptyCells" /\ playpc' = "setRevealed"

\* the cell that the outermost call was given
FloodStart == << frames[1].x, frames[1].y >>

\* a flood fill that has started ends, marks no mine and no flagged cell
FloodIsSafe ==
    /\ (playpc = "revealEmptyCells") ~> (playpc = "setRevealed")
    /\ [](playpc # "idle" =>
             /\ newRevealed \cap PlayMines = {}
             /\ newRevealed \cap flaggedCells = {}
             /\ revealedCells \subseteq newRevealed)

\* C35: on a board with correct counts revealEmptyCells, started from a
\* zero-count cell, terminates, marks no mine and no flagged cell as
\* revealed, and reveals exactly the unflagged cells of the zero region of
\* the start and of its border, the region being taken through all
\* zero-count cells.
C35_FloodRevealsZeroRegion ==
    /\ FloodIsSafe
    /\ [][ FloodReturns =>
              newRevealed' = revealedCells
                    \cup (RegionWithBorder(FloodStart, PlayCells) \ flaggedCells) ]_vars

\* C35 restated: as above, the region being taken through the zero-count
\* cells that are not flagged and were not revealed before the click: a
\* flagged or an already revealed zero-count cell stops the flood.
C35_FloodRevealsOpenZeroRegion ==
    /\ FloodIsSafe
    /\ [][ FloodReturns =>
              newRevealed' = revealedCells
                    \cup (RegionWithBorder(FloodStart,
                                           PlayCells \ (flaggedCells \cup revealedCells))
                          \ flaggedCells) ]_vars

\* C35 witness: on the board of 3 x 2 with a mine in the corner (0, 0), the
\* click on (2, 0) has revealed the two zero-count cells and the two cells
\* that count 1 next to them
C35_Witness_RegionAndBorderRevealed ==
    /\ playpc = "setRevealed"
    /\ PlayWidth = 3
    /\ PlayMines = { <<0, 0>> }
    /\ flaggedCells = {}
    /\ revealedCells = {}
    /\ newRevealed = { <<2, 0>>, <<2, 1>>, <<1, 0>>, <<1, 1>> }

-----------------------------------------------------------------------------
(* Server and ledger together: what the claims speak of *)

\* every completion record of the server was submitted to the ledger and
\* nothing else was: one record per player with a score, with its moves
RecordsSubmitted ==
    /\ \A i, j \in 1..Len(leaderboard) :
          i # j => leaderboard[i].playerAddress # leaderboard[j].playerAddress
    /\ \A i \in 1..Len(leaderboard) :
          contest.bestMoves[Account(leaderboard[i].playerAddress)] = leaderboard[i].moves.v
    /\ \A p \in PlayerSet :
          contest.bestMoves[p] > 0 =>
             \E i \in 1..Len(leaderboard) : Account(leaderboard[i].playerAddress) = p

\* C31: when every completion record was submitted with the proof of its
\* verify, the winners distributePrizes pays are, in order, the players of
\* the first records of the leaderboard sorted by (moves, timeTaken).
C31_LedgerPaysAsLeaderboardRanks ==
    (Distributed /\ RecordsSubmitted) =>
        \E top \in LeaderboardResults(1, 3) :
            \A k \in 1..3 :
                lastCall.winners[k] = (IF k <= Len(top) THEN Account(top[k].playerAddress)
                                       ELSE ZeroAddress)

====
